---------------------------- MODULE Spec2Model ----------------------------
(***************************************************************************)
(* A model of the crawl orchestration of keanu-thakalath/crawler:          *)
(* the Job / Page / Source aggregate of backend/domain/entities.py, the    *)
(* generators Page.scrape_page, Page.extract_page, Source.summarize_source *)
(* and Source.crawl_source, and the service functions of                   *)
(* backend/service/services.py that drive them (one commit per emission),  *)
(* approve and edit results, and build the pruned read models.             *)
(*                                                                         *)
(* One Source is modelled.  A Page is identified by its url, a Job by its  *)
(* position in jobs (the order of construction stands for job_id).         *)
(* The collaborators (content scraper, link extractor, page summarizer,    *)
(* source analyzer) are black boxes that return a value or throw.          *)
(* A generator runs atomically from one yield to the next; the caller's    *)
(* commit after a yield either succeeds (the next action resumes the       *)
(* generator) or fails (CommitFails).                                      *)
(***************************************************************************)
EXTENDS Integers, Sequences, FiniteSets

(* ------------------------------ bounds --------------------------------- *)

\* URLs are 1..NumUrls
NumUrls == 4

\* max_pages is drawn from 0..MaxPagesBound
MaxPagesBound == 3

\* a scrape returns at most MaxLinks internal links
MaxLinks == 3

\* the operations of SpecOps construct at most MaxJobs jobs
MaxJobs == 3

\* at most MaxDispatched tasks are handed to the task queue
MaxDispatched == 1

\* the model call fails with one of NumErrors distinguishable exceptions
NumErrors == 4

\* a decoded JSON object has at most MaxKeys top-level keys
MaxKeys == 2

\* a url string has at most MaxUrlLen pieces
MaxUrlLen == 8

\* a page's markup has at most MaxHrefs anchors
MaxHrefs == 3

\* NumCallers calls of add_source may run at the same time
NumCallers == 2

\* NumSources sources are crawled at the same time, each at most
\* MaxFleetPages pages deep
NumSources == 2
MaxFleetPages == 2

\* the chunks with content one streamed completion may give
MaxChunks == 2

\* the crawl tasks that may wait on the task queue
MaxQueued == 2

\* the rows of the jobs table whose outcome is assigned and read
NumRecords == 2

\* the service calls followed in one database, and the jobs they may store
MaxSessions == 2
MaxSessionJobs == 3

(* ------------------------------ values --------------------------------- *)

URLS == 1..NumUrls

\* Source.url, the seed of every crawl of the source
SourceUrl == 1

\* ExtractJobResult.next_internal_link = None
NoLink == 0

\* the summary an LLM collaborator returns
LlmSummary == <<"s">>

\* Job.outcome = None
NoOutcome == [kind |-> "none"]

\* JobError(message=...)
JobError == [kind |-> "error"]

ScrapeJobResult(md, links) ==
    [kind |-> "scrape", markdown |-> md, internal_links |-> links]

\* review_status defaults to ReviewStatus.UNREVIEWED (LLMResponseMetadata)
ExtractJobResult(summary, next) ==
    [kind |-> "extract", summary |-> summary, next_internal_link |-> next,
     review_status |-> "Unreviewed"]

SummarizeJobResult(summary) ==
    [kind |-> "summarize", summary |-> summary, review_status |-> "Unreviewed"]

CrawlJobResult(crawled, found, limit) ==
    [kind |-> "crawl", pages_crawled |-> crawled, total_pages_found |-> found,
     max_pages_limit |-> limit]

\* a new Job of one of the four aliases ScrapeJob, ExtractJob, SummarizeJob, CrawlJob
NewJob(type) == [type |-> type, outcome |-> NoOutcome]

(* --------------------------- helper operators -------------------------- *)

SeqToSet(s) == {s[i] : i \in 1..Len(s)}

\* the run of URLs <<lo, lo+1, ..., hi>>: a deduplicated link list
Run(lo, hi) == [i \in 1..(hi - lo + 1) |-> lo + i - 1]

\* the internal_links a scrape returns here: no link, one link, or a run of
\* MaxLinks links (runs overlap, and may hold the page itself or a processed page)
LinkChoices ==
    {<<>>, <<NumUrls>>} \cup {Run(lo, lo + MaxLinks - 1) : lo \in 1..(NumUrls - MaxLinks + 1)}

Contains(s, x) == \E i \in 1..Len(s) : s[i] = x


\* what the content scraper and link extractor give Page.scrape_page:
\* an exception, or markdown and the classified internal links
ScrapeReturns ==
    {[throws |-> TRUE]} \cup
    {[throws |-> FALSE, markdown |-> "md", internal_links |-> l] : l \in LinkChoices}

\* what the page summarizer gives Page.extract_page: an exception, or a
\* summary and the next internal link it selected (possibly none)
ExtractReturns ==
    {[throws |-> TRUE]} \cup
    {[throws |-> FALSE, summary |-> LlmSummary, next_internal_link |-> n] :
        n \in {NoLink} \cup URLS}

\* what the source analyzer gives Source.summarize_source
SummarizeReturns ==
    {[throws |-> TRUE], [throws |-> FALSE, summary |-> LlmSummary]}

(* ------------------------------- state --------------------------------- *)

VARIABLES
    pages,        \* Source.pages: the urls of the source's Pages, in order
    page_jobs,    \* Page.jobs of the page with each url (<<>> while no such Page)
    source_jobs,  \* Source.jobs
    jobs,         \* every Job constructed so far; a job's id is its index
    emitted,      \* the jobs yielded to the caller, each with its outcome kind then
    pc,           \* where the running operation is suspended
    crawl,        \* the frame of Source.crawl_source: its argument and locals
    gen,          \* the frame of the running Page / Source job generator
    queued,       \* history: every url ever put on url_queue, in order
    error,        \* the exception the running service call raised, or "none"
    view,         \* what the running call returns if it is a read model, else NoView
    dispatched,   \* the tasks handed to the task queue (task.delay), in order
    completion,   \* the frame of _completion_with_retry and what it has done
    complete,     \* the frame of LiteLLMStructuredCompletion.complete
    construction, \* one construction of a NormalizedUrl: its argument and outcome
    extraction,   \* one call of extract_links_from_html: its argument and result
    registry,     \* the rows of the sources table and the add_source calls running
    fleet,        \* the rows of the pages table and the crawls of several sources
    session,      \* one unit of work of a generator-driven service call and the database
    record,       \* the five sub-records of each row of the jobs table, and the last read
    intake,       \* the crawl_url_with_source_check calls running and the crawl tasks queued
    chat          \* the frame of LiteLLMChatbot.chat_stream and the responses it has yielded

vars == <<pages, page_jobs, source_jobs, jobs, emitted, pc, crawl, gen, queued,
          error, view, dispatched, completion, complete, construction, extraction,
          registry, fleet, session, record, intake, chat>>

\* the state of the code that runs apart from the graph of one source
detached == <<completion, complete, construction, extraction, registry, fleet, session, record, intake, chat>>

NoFrame == [page |-> 0, job |-> 0]

NoView == <<>>

\* _completion_with_retry not called: no attempt made, nothing slept
NoCompletion ==
    [pc |-> "idle", attempt |-> 0, calls |-> <<>>, slept |-> <<>>,
     response |-> "none", raised |-> 0]

\* complete not called: nothing decoded, nothing validated
\* crawl_source not called on a source
NoSourceCrawl ==
    [pc |-> "idle", max_pages |-> 0, url_queue |-> <<>>, processed_pages |-> {},
     pages_crawled |-> 0, current_url |-> 0, pages |-> <<>>, outcome |-> "none"]

\* an empty pages table and no crawl running
NoFleet == [pages |-> <<>>, crawls |-> [source \in 1..NumSources |-> NoSourceCrawl]]

\* a Job just constructed: outcome = None has cleared the five sub-records
NoRow ==
    [_error |-> NoOutcome, _scrape_result |-> NoOutcome, _extract_result |-> NoOutcome,
     _summarize_result |-> NoOutcome, _crawl_result |-> NoOutcome]

\* no outcome assigned and none read
NoRecord == [rows |-> [job \in 1..NumRecords |-> NoRow], job |-> 0, read |-> NoOutcome]

\* crawl_url_with_source_check not called by caller
NoCheck == [pc |-> "idle", url |-> <<>>, normalized_url |-> <<>>, error |-> "none"]

\* no crawl_url task has run
NoTask == [source_url |-> <<>>, error |-> "none"]

\* no call running, no task queued or run, no source deleted
NoIntake ==
    [calls |-> [caller \in 1..NumCallers |-> NoCheck], queue |-> <<>>,
     task |-> NoTask, deleted |-> {}]

\* chat_stream not called: no round made, no function called, nothing yielded
NoChat == [pc |-> "idle", iteration |-> 0, function_results |-> <<>>, responses |-> <<>>]

\* no unit of work is open and the database holds no job
NoSession ==
    [pc |-> "closed", op |-> "none", first |-> 0, opened |-> 0, memory |-> <<>>,
     durable |-> <<>>, emissions |-> <<>>]

\* add_source not called by caller
NoCall == [pc |-> "idle", url |-> <<>>, normalized_url |-> <<>>, error |-> "none"]

\* an empty sources table and no add_source call running
NoRegistry == [sources |-> <<>>, calls |-> [caller \in 1..NumCallers |-> NoCall]]

\* extract_links_from_html not called
NoExtraction ==
    [pc |-> "idle", matches |-> <<>>, internal_links |-> <<>>,
     external_links |-> <<>>, file_links |-> <<>>]

\* no NormalizedUrl is being constructed
NoConstruction ==
    [pc |-> "idle", url |-> <<>>, new |-> [raised |-> "none", value |-> <<>>],
     try_new |-> [raised |-> "none", value |-> <<>>]]

NoContent == [object |-> FALSE, keys |-> 0, valid |-> FALSE, first |-> "none"]

NoComplete ==
    [pc |-> "idle", content |-> NoContent, conversions |-> 0, result |-> "none",
     raised |-> "none"]

\* the frame of crawl_source before the call
NoCrawl ==
    [max_pages |-> 0, crawl_job |-> 0, url_queue |-> <<>>,
     candidate_internal_links |-> <<>>, processed_pages |-> {},
     pages_crawled |-> 0, total_pages_found |-> 0, current_page |-> 0,
     scrape_job |-> 0, extract_job |-> 0, filtered_candidate_links |-> <<>>]

\* a Source just constructed: Source(url=normalized_url)
Init ==
    /\ pages = <<>>
    /\ page_jobs = [u \in URLS |-> <<>>]
    /\ source_jobs = <<>>
    /\ jobs = <<>>
    /\ emitted = <<>>
    /\ pc = "idle"
    /\ crawl = NoCrawl
    /\ gen = NoFrame
    /\ queued = <<>>
    /\ error = "none"
    /\ view = NoView
    /\ dispatched = <<>>
    /\ completion = NoCompletion
    /\ complete = NoComplete
    /\ construction = NoConstruction
    /\ extraction = NoExtraction
    /\ registry = NoRegistry
    /\ fleet = NoFleet
    /\ session = NoSession
    /\ record = NoRecord
    /\ intake = NoIntake
    /\ chat = NoChat

Emission(j, outcome) == [job |-> j, kind |-> outcome.kind]

(* ------------------- Page.scrape_page / extract_page ------------------- *)

ScrapeOutcome_unhandled(r) ==
    IF r.throws THEN NoOutcome ELSE ScrapeJobResult(r.markdown, r.internal_links)

\* scrape_page: job.outcome after the try block
ScrapeOutcome(r) ==
    IF r.throws THEN JobError ELSE ScrapeJobResult(r.markdown, r.internal_links)

\* extract_page: job.outcome after the try block
ExtractOutcome(r) ==
    IF r.throws THEN JobError ELSE ExtractJobResult(r.summary, r.next_internal_link)

\* summarize_source: job.outcome after the try block
SummarizeOutcome(r) ==
    IF r.throws THEN JobError ELSE SummarizeJobResult(r.summary)

\* job = ScrapeJob() / ExtractJob(); self.jobs.append(job); yield job
PageJobBegin(u, type) ==
    /\ jobs' = Append(jobs, NewJob(type))
    /\ page_jobs' = [page_jobs EXCEPT ![u] = Append(@, Len(jobs) + 1)]
    /\ emitted' = Append(emitted, Emission(Len(jobs) + 1, NoOutcome))
    /\ gen' = [page |-> u, job |-> Len(jobs) + 1]

\* job.outcome = ...; yield job
JobEnd(outcome) ==
    /\ jobs' = [jobs EXCEPT ![gen.job].outcome = outcome]
    /\ emitted' = Append(emitted, Emission(gen.job, outcome))

(* -------------------------- Source.crawl_source ------------------------ *)

LoopCondition_inclusive(q, crawled, limit) == q /= <<>> /\ crawled <= limit

\* while url_queue and pages_crawled < max_pages
LoopCondition(q, crawled, limit) == q /= <<>> /\ crawled < limit

RestOfQueue_peek(q) == q

\* url_queue after current_url = url_queue.pop(0)
RestOfQueue(q) == Tail(q)

CountPage_successonly(crawled, outcome) ==
    IF outcome.kind = "error" THEN crawled ELSE crawled + 1

\* pages_crawled += 1, whatever the outcome of the page's last job
CountPage(crawled, outcome) == crawled + 1

RECURSIVE AddCandidates_nodedup(_, _, _)
AddCandidates_nodedup(cands, found, links) ==
    IF links = <<>>
    THEN [candidate_internal_links |-> cands, total_pages_found |-> found]
    ELSE AddCandidates_nodedup(Append(cands, Head(links)), found + 1, Tail(links))

RECURSIVE AddCandidates_uncounted(_, _, _)
AddCandidates_uncounted(cands, found, links) ==
    IF links = <<>>
    THEN [candidate_internal_links |-> cands, total_pages_found |-> found]
    ELSE IF Contains(cands, Head(links))
         THEN AddCandidates_uncounted(cands, found, Tail(links))
         ELSE AddCandidates_uncounted(Append(cands, Head(links)), found, Tail(links))

\* for internal_link in scrape_job.outcome.internal_links: append the links not
\* yet among the candidates, counting each one in total_pages_found
RECURSIVE AddCandidates(_, _, _)
AddCandidates(cands, found, links) ==
    IF links = <<>>
    THEN [candidate_internal_links |-> cands, total_pages_found |-> found]
    ELSE IF Contains(cands, Head(links))
         THEN AddCandidates(cands, found, Tail(links))
         ELSE AddCandidates(Append(cands, Head(links)), found + 1, Tail(links))

\* [link for link in candidate_internal_links if link not in processed_pages]
FilterCandidates(cands, processed) ==
    SelectSeq(cands, LAMBDA l : l \notin processed)

\* the next link is queued whether or not its page was processed
QueuesNext_unchecked(outcome, processed) ==
    /\ outcome.kind = "extract"
    /\ outcome.next_internal_link /= NoLink

\* the next link is queued when the extract gave one that is not processed yet
QueuesNext(outcome, processed) ==
    /\ outcome.kind = "extract"
    /\ outcome.next_internal_link /= NoLink
    /\ outcome.next_internal_link \notin processed

\* the loop head constructing a Page for every url it pops
LoopHead_newpage(c) ==
    IF LoopCondition(c.url_queue, c.pages_crawled, c.max_pages)
    THEN LET current_url == Head(c.url_queue) IN
         /\ pages' = Append(pages, current_url)
         /\ PageJobBegin(current_url, "scrape")
         /\ crawl' = [c EXCEPT !.url_queue = RestOfQueue(c.url_queue),
                               !.processed_pages = @ \cup {current_url},
                               !.current_page = current_url,
                               !.scrape_job = Len(jobs) + 1]
         /\ pc' = "scrape_pending"
    ELSE LET result == CrawlJobResult(c.pages_crawled, c.total_pages_found,
                                      c.max_pages) IN
         /\ jobs' = [jobs EXCEPT ![c.crawl_job].outcome = result]
         /\ emitted' = Append(emitted, Emission(c.crawl_job, result))
         /\ crawl' = c
         /\ pc' = "crawl_terminal"
         /\ UNCHANGED <<pages, page_jobs, gen>>

\* the head of the while loop, reached with the locals c: either the next
\* iteration runs up to the pending emission of its ScrapeJob, or the loop
\* ends and the CrawlJob is emitted with its CrawlJobResult
LoopHead(c) ==
    IF LoopCondition(c.url_queue, c.pages_crawled, c.max_pages)
    THEN LET current_url == Head(c.url_queue) IN
         /\ pages' = IF Contains(pages, current_url) THEN pages
                     ELSE Append(pages, current_url)
         /\ PageJobBegin(current_url, "scrape")
         /\ crawl' = [c EXCEPT !.url_queue = RestOfQueue(c.url_queue),
                               !.processed_pages = @ \cup {current_url},
                               !.current_page = current_url,
                               !.scrape_job = Len(jobs) + 1]
         /\ pc' = "scrape_pending"
    ELSE LET result == CrawlJobResult(c.pages_crawled, c.total_pages_found,
                                      c.max_pages) IN
         /\ jobs' = [jobs EXCEPT ![c.crawl_job].outcome = result]
         /\ emitted' = Append(emitted, Emission(c.crawl_job, result))
         /\ crawl' = c
         /\ pc' = "crawl_terminal"
         /\ UNCHANGED <<pages, page_jobs, gen>>

\* crawl_job = CrawlJob(); self.jobs.append(crawl_job); yield crawl_job
CrawlBegin(max_pages) ==
    /\ pc = "idle"
    /\ jobs' = Append(jobs, NewJob("crawl"))
    /\ source_jobs' = Append(source_jobs, Len(jobs) + 1)
    /\ emitted' = Append(emitted, Emission(Len(jobs) + 1, NoOutcome))
    /\ crawl' = [NoCrawl EXCEPT !.max_pages = max_pages, !.crawl_job = Len(jobs) + 1]
    /\ pc' = "crawl_pending"
    /\ queued' = <<>>
    /\ error' = "none"
    /\ UNCHANGED <<pages, page_jobs, gen>>
    /\ view' = NoView
    /\ UNCHANGED <<dispatched, detached>>

\* resumed after the pending CrawlJob: the locals are initialised and the
\* loop is entered
CrawlEnterLoop ==
    /\ pc = "crawl_pending"
    /\ LoopHead([crawl EXCEPT !.url_queue = <<SourceUrl>>,
                              !.candidate_internal_links = <<>>,
                              !.processed_pages = {},
                              !.pages_crawled = 0,
                              !.total_pages_found = 1])
    /\ queued' = <<SourceUrl>>
    /\ UNCHANGED <<source_jobs, error, view>>
    /\ UNCHANGED <<dispatched, detached>>

\* scrape_page resumed after its pending emission: the collaborators return
\* or throw, the outcome is set and the job is emitted again
CrawlScrapeEnd(r) ==
    /\ pc = "scrape_pending"
    /\ JobEnd(ScrapeOutcome(r))
    /\ pc' = "scrape_terminal"
    /\ UNCHANGED <<pages, page_jobs, source_jobs, crawl, gen, queued, error, view>>
    /\ UNCHANGED <<dispatched, detached>>

\* the ExtractJob of the page is started without waiting for the outcome of
\* its ScrapeJob
CrawlAfterScrape_unawaited ==
    /\ pc \in {"scrape_pending", "scrape_terminal"}
    /\ LET outcome == jobs[crawl.scrape_job].outcome IN
       IF outcome.kind /= "error"
       THEN LET merged == IF outcome.kind = "scrape"
                          THEN AddCandidates(crawl.candidate_internal_links,
                                             crawl.total_pages_found,
                                             outcome.internal_links)
                          ELSE [candidate_internal_links |->
                                    crawl.candidate_internal_links,
                                total_pages_found |-> crawl.total_pages_found] IN
            /\ PageJobBegin(crawl.current_page, "extract")
            /\ crawl' = [crawl EXCEPT
                   !.candidate_internal_links = merged.candidate_internal_links,
                   !.total_pages_found = merged.total_pages_found,
                   !.filtered_candidate_links =
                       FilterCandidates(merged.candidate_internal_links,
                                        crawl.processed_pages),
                   !.extract_job = Len(jobs) + 1]
            /\ pc' = "extract_pending"
            /\ UNCHANGED pages
       ELSE LoopHead([crawl EXCEPT !.pages_crawled = CountPage(@, outcome)])
    /\ UNCHANGED <<source_jobs, queued, error, view>>
    /\ UNCHANGED <<dispatched, detached>>

\* the ExtractJob of the page is appended whatever the outcome of its
\* ScrapeJob
CrawlAfterScrape_always ==
    /\ pc = "scrape_terminal"
    /\ LET outcome == jobs[crawl.scrape_job].outcome
           merged == IF outcome.kind = "scrape"
                     THEN AddCandidates(crawl.candidate_internal_links,
                                        crawl.total_pages_found,
                                        outcome.internal_links)
                     ELSE [candidate_internal_links |->
                               crawl.candidate_internal_links,
                           total_pages_found |-> crawl.total_pages_found]
       IN /\ PageJobBegin(crawl.current_page, "extract")
          /\ crawl' = [crawl EXCEPT
                 !.candidate_internal_links = merged.candidate_internal_links,
                 !.total_pages_found = merged.total_pages_found,
                 !.filtered_candidate_links =
                     FilterCandidates(merged.candidate_internal_links,
                                      crawl.processed_pages),
                 !.extract_job = Len(jobs) + 1]
          /\ pc' = "extract_pending"
          /\ UNCHANGED pages
    /\ UNCHANGED <<source_jobs, queued, error, view>>
    /\ UNCHANGED <<dispatched, detached>>

\* resumed after the terminal ScrapeJob: on a ScrapeJobResult the candidates
\* are merged and the ExtractJob is appended and emitted; otherwise the page
\* is counted and the loop goes on
CrawlAfterScrape ==
    /\ pc = "scrape_terminal"
    /\ LET outcome == jobs[crawl.scrape_job].outcome IN
       IF outcome.kind = "scrape"
       THEN LET merged == AddCandidates(crawl.candidate_internal_links,
                                        crawl.total_pages_found,
                                        outcome.internal_links) IN
            /\ PageJobBegin(crawl.current_page, "extract")
            /\ crawl' = [crawl EXCEPT
                   !.candidate_internal_links = merged.candidate_internal_links,
                   !.total_pages_found = merged.total_pages_found,
                   !.filtered_candidate_links =
                       FilterCandidates(merged.candidate_internal_links,
                                        crawl.processed_pages),
                   !.extract_job = Len(jobs) + 1]
            /\ pc' = "extract_pending"
            /\ UNCHANGED pages
       ELSE LoopHead([crawl EXCEPT !.pages_crawled = CountPage(@, outcome)])
    /\ UNCHANGED <<source_jobs, queued, error, view>>
    /\ UNCHANGED <<dispatched, detached>>

\* extract_page resumed after its pending emission
CrawlExtractEnd(r) ==
    /\ pc = "extract_pending"
    /\ JobEnd(ExtractOutcome(r))
    /\ pc' = "extract_terminal"
    /\ UNCHANGED <<pages, page_jobs, source_jobs, crawl, gen, queued, error, view>>
    /\ UNCHANGED <<dispatched, detached>>

\* every candidate link not yet processed is queued behind the page
CrawlAfterExtract_allcandidates ==
    /\ pc = "extract_terminal"
    /\ LET outcome == jobs[crawl.extract_job].outcome
           more == IF outcome.kind = "extract"
                   THEN SelectSeq(crawl.filtered_candidate_links,
                                  LAMBDA l : ~Contains(crawl.url_queue, l))
                   ELSE <<>>
       IN /\ LoopHead([crawl EXCEPT !.url_queue = @ \o more,
                                    !.pages_crawled = CountPage(@, outcome)])
          /\ queued' = queued \o more
    /\ UNCHANGED <<source_jobs, error, view>>
    /\ UNCHANGED <<dispatched, detached>>

\* resumed after the terminal ExtractJob: the next link is queued, the page
\* is counted and the loop goes on
CrawlAfterExtract ==
    /\ pc = "extract_terminal"
    /\ LET outcome == jobs[crawl.extract_job].outcome
           append == QueuesNext(outcome, crawl.processed_pages)
           q == IF append THEN Append(crawl.url_queue, outcome.next_internal_link)
                ELSE crawl.url_queue
       IN /\ LoopHead([crawl EXCEPT !.url_queue = q,
                                    !.pages_crawled = CountPage(@, outcome)])
          /\ queued' = IF append THEN Append(queued, outcome.next_internal_link)
                       ELSE queued
    /\ UNCHANGED <<source_jobs, error, view>>
    /\ UNCHANGED <<dispatched, detached>>

\* resumed after the terminal CrawlJob: the generator is exhausted and
\* services.crawl_source returns the job
CrawlReturn ==
    /\ pc = "crawl_terminal"
    /\ pc' = "done"
    /\ UNCHANGED <<pages, page_jobs, source_jobs, jobs, emitted, crawl, gen, queued,
                   error, view>>
    /\ UNCHANGED <<dispatched, detached>>

\* the pcs at which crawl_source is suspended in a yield
CrawlYields ==
    {"crawl_pending", "scrape_pending", "scrape_terminal", "extract_pending",
     "extract_terminal", "crawl_terminal"}

\* the pcs at which a generator driven by scrape_page, extract_page or
\* summarize_source of services.py is suspended in a yield
ServiceYields ==
    {"service_scrape_pending", "service_extract_pending", "service_summarize_pending",
     "service_terminal"}

\* await uow.commit() raises in the body of the caller's async for: the
\* exception leaves the service function and the generator is never resumed
CommitFails ==
    /\ pc \in CrawlYields \cup ServiceYields
    /\ pc' = "raised"
    /\ error' = "CommitError"
    /\ UNCHANGED <<pages, page_jobs, source_jobs, jobs, emitted, crawl, gen, queued,
                   view>>
    /\ UNCHANGED <<dispatched, detached>>

(* ------------------ the service functions (services.py) ---------------- *)

\* no operation is running: a service function can be called
Idle == pc = "idle"

\* add_page_to_source: PageAlreadyExistsError for a known url, else a new
\* Page is appended to the source and committed
AddPageToSource(u) ==
    /\ Idle
    /\ IF Contains(pages, u)
       THEN /\ error' = "PageAlreadyExists"
            /\ pc' = "raised"
            /\ UNCHANGED pages
       ELSE /\ error' = "none"
            /\ pages' = Append(pages, u)
            /\ UNCHANGED pc
    /\ view' = NoView
    /\ UNCHANGED <<page_jobs, source_jobs, jobs, emitted, crawl, gen, queued>>
    /\ UNCHANGED <<dispatched, detached>>

\* scrape_page / extract_page called for a url that has no Page
PageNotFound(u) ==
    /\ Idle
    /\ ~Contains(pages, u)
    /\ error' = "PageNotFound"
    /\ pc' = "raised"
    /\ view' = NoView
    /\ UNCHANGED <<pages, page_jobs, source_jobs, jobs, emitted, crawl, gen, queued>>
    /\ UNCHANGED <<dispatched, detached>>

\* services.scrape_page up to the commit of the pending ScrapeJob
ServiceScrapeBegin(u) ==
    /\ Idle
    /\ Contains(pages, u)
    /\ PageJobBegin(u, "scrape")
    /\ pc' = "service_scrape_pending"
    /\ error' = "none"
    /\ UNCHANGED <<pages, source_jobs, crawl, queued>>
    /\ view' = NoView
    /\ UNCHANGED <<dispatched, detached>>

\* services.extract_page up to the commit of the pending ExtractJob
ServiceExtractBegin(u) ==
    /\ Idle
    /\ Contains(pages, u)
    /\ PageJobBegin(u, "extract")
    /\ pc' = "service_extract_pending"
    /\ error' = "none"
    /\ UNCHANGED <<pages, source_jobs, crawl, queued>>
    /\ view' = NoView
    /\ UNCHANGED <<dispatched, detached>>

\* a run that takes up the source's last SummarizeJob again, if it has one
ServiceSummarizeBegin_rerun ==
    LET earlier == {i \in 1..Len(source_jobs) : jobs[source_jobs[i]].type = "summarize"}
        job == IF earlier = {} THEN Len(jobs) + 1
               ELSE source_jobs[CHOOSE i \in earlier : \A k \in earlier : k <= i]
    IN /\ Idle
       /\ jobs' = IF earlier = {} THEN Append(jobs, NewJob("summarize"))
                  ELSE [jobs EXCEPT ![job].outcome = NoOutcome]
       /\ source_jobs' = IF earlier = {} THEN Append(source_jobs, job) ELSE source_jobs
       /\ emitted' = Append(emitted, Emission(job, NoOutcome))
       /\ gen' = [page |-> 0, job |-> job]
       /\ pc' = "service_summarize_pending"
       /\ error' = "none"
       /\ UNCHANGED <<pages, page_jobs, crawl, queued>>
       /\ view' = NoView
       /\ UNCHANGED <<dispatched, detached>>

\* Source.summarize_source: job = SummarizeJob(); self.jobs.append(job); yield job
ServiceSummarizeBegin ==
    /\ Idle
    /\ jobs' = Append(jobs, NewJob("summarize"))
    /\ source_jobs' = Append(source_jobs, Len(jobs) + 1)
    /\ emitted' = Append(emitted, Emission(Len(jobs) + 1, NoOutcome))
    /\ gen' = [page |-> 0, job |-> Len(jobs) + 1]
    /\ pc' = "service_summarize_pending"
    /\ error' = "none"
    /\ UNCHANGED <<pages, page_jobs, crawl, queued>>
    /\ view' = NoView
    /\ UNCHANGED <<dispatched, detached>>

\* the generator resumed after the pending emission: the outcome is set and
\* the job is emitted and committed again
ServiceJobEnd(at, outcome) ==
    /\ pc = at
    /\ JobEnd(outcome)
    /\ pc' = "service_terminal"
    /\ UNCHANGED <<pages, page_jobs, source_jobs, crawl, gen, queued, error, view>>
    /\ UNCHANGED <<dispatched, detached>>

ServiceScrapeEnd(r) == ServiceJobEnd("service_scrape_pending", ScrapeOutcome(r))

ServiceExtractEnd(r) == ServiceJobEnd("service_extract_pending", ExtractOutcome(r))

ServiceSummarizeEnd(r) ==
    ServiceJobEnd("service_summarize_pending", SummarizeOutcome(r))

\* the generator is exhausted and the service function returns the job
ServiceReturn ==
    /\ pc = "service_terminal"
    /\ pc' = "idle"
    /\ gen' = NoFrame
    /\ UNCHANGED <<pages, page_jobs, source_jobs, jobs, emitted, crawl, queued, error,
                   view>>
    /\ UNCHANGED <<dispatched, detached>>

\* the unit of work of a call that raised, of a finished crawl or of a read
\* model is left; the next call runs in a new one
UnitOfWorkExit ==
    /\ pc \in {"done", "raised", "returned", "filtered"}
    /\ pc' = "idle"
    /\ crawl' = NoCrawl
    /\ gen' = NoFrame
    /\ queued' = <<>>
    /\ error' = "none"
    /\ view' = NoView
    /\ UNCHANGED <<pages, page_jobs, source_jobs, jobs, emitted>>
    /\ UNCHANGED <<dispatched, detached>>

\* isinstance(job.outcome, (ExtractJobResult, SummarizeJobResult))
Reviewable(outcome) == outcome.kind \in {"extract", "summarize"}

ApproveJob_unchecked(job_id) ==
    /\ Idle
    /\ IF job_id \notin 1..Len(jobs)
       THEN /\ error' = "JobNotFound"
            /\ pc' = "raised"
            /\ UNCHANGED jobs
       ELSE /\ error' = "none"
            /\ jobs' = [jobs EXCEPT ![job_id].outcome =
                           [kind |-> @.kind, review_status |-> "Approved"]]
            /\ UNCHANGED pc
    /\ view' = NoView
    /\ UNCHANGED <<pages, page_jobs, source_jobs, emitted, crawl, gen, queued>>
    /\ UNCHANGED <<dispatched, detached>>

\* approve_job_review_status(job_id)
ApproveJob(job_id) ==
    /\ Idle
    /\ IF job_id \notin 1..Len(jobs)
       THEN /\ error' = "JobNotFound"
            /\ pc' = "raised"
            /\ UNCHANGED jobs
       ELSE IF ~Reviewable(jobs[job_id].outcome)
       THEN /\ error' = "InvalidJobType"
            /\ pc' = "raised"
            /\ UNCHANGED jobs
       ELSE /\ error' = "none"
            /\ jobs' = [jobs EXCEPT ![job_id].outcome.review_status = "Approved"]
            /\ UNCHANGED pc
    /\ view' = NoView
    /\ UNCHANGED <<pages, page_jobs, source_jobs, emitted, crawl, gen, queued>>
    /\ UNCHANGED <<dispatched, detached>>

\* str.strip(): the text without its leading and trailing whitespace
RECURSIVE Strip(_)
Strip(text) ==
    IF text = <<>> THEN <<>>
    ELSE IF Head(text) = " " THEN Strip(Tail(text))
    ELSE IF text[Len(text)] = " " THEN Strip(SubSeq(text, 1, Len(text) - 1))
    ELSE text

EditJobOutcomeSummary_lookupfirst(job_id, summary) ==
    /\ Idle
    /\ IF job_id \notin 1..Len(jobs)
       THEN /\ error' = "JobNotFound"
            /\ pc' = "raised"
            /\ UNCHANGED jobs
       ELSE IF ~Reviewable(jobs[job_id].outcome)
       THEN /\ error' = "InvalidJobType"
            /\ pc' = "raised"
            /\ UNCHANGED jobs
       ELSE IF summary = <<>> \/ Strip(summary) = <<>>
       THEN /\ error' = "InvalidSummaryValue"
            /\ pc' = "raised"
            /\ UNCHANGED jobs
       ELSE /\ error' = "none"
            /\ jobs' = [jobs EXCEPT ![job_id].outcome.summary = Strip(summary)]
            /\ UNCHANGED pc
    /\ view' = NoView
    /\ UNCHANGED <<pages, page_jobs, source_jobs, emitted, crawl, gen, queued>>
    /\ UNCHANGED <<dispatched, detached>>

EditJobOutcomeSummary_untrimmed(job_id, summary) ==
    /\ Idle
    /\ IF summary = <<>> \/ Strip(summary) = <<>>
       THEN /\ error' = "InvalidSummaryValue"
            /\ pc' = "raised"
            /\ UNCHANGED jobs
       ELSE IF job_id \notin 1..Len(jobs)
       THEN /\ error' = "JobNotFound"
            /\ pc' = "raised"
            /\ UNCHANGED jobs
       ELSE IF ~Reviewable(jobs[job_id].outcome)
       THEN /\ error' = "InvalidJobType"
            /\ pc' = "raised"
            /\ UNCHANGED jobs
       ELSE /\ error' = "none"
            /\ jobs' = [jobs EXCEPT ![job_id].outcome.summary = summary]
            /\ UNCHANGED pc
    /\ view' = NoView
    /\ UNCHANGED <<pages, page_jobs, source_jobs, emitted, crawl, gen, queued>>
    /\ UNCHANGED <<dispatched, detached>>

\* an edit that puts the edited result back to review
EditJobOutcomeSummary_resets(job_id, summary) ==
    /\ Idle
    /\ IF summary = <<>> \/ Strip(summary) = <<>>
       THEN /\ error' = "InvalidSummaryValue"
            /\ pc' = "raised"
            /\ UNCHANGED jobs
       ELSE IF job_id \notin 1..Len(jobs)
       THEN /\ error' = "JobNotFound"
            /\ pc' = "raised"
            /\ UNCHANGED jobs
       ELSE IF ~Reviewable(jobs[job_id].outcome)
       THEN /\ error' = "InvalidJobType"
            /\ pc' = "raised"
            /\ UNCHANGED jobs
       ELSE /\ error' = "none"
            /\ jobs' = [jobs EXCEPT ![job_id].outcome.summary = Strip(summary),
                                    ![job_id].outcome.review_status = "Unreviewed"]
            /\ UNCHANGED pc
    /\ view' = NoView
    /\ UNCHANGED <<pages, page_jobs, source_jobs, emitted, crawl, gen, queued>>
    /\ UNCHANGED <<dispatched, detached>>

\* edit_job_outcome_summary(job_id, summary)
EditJobOutcomeSummary(job_id, summary) ==
    /\ Idle
    /\ IF summary = <<>> \/ Strip(summary) = <<>>
       THEN /\ error' = "InvalidSummaryValue"
            /\ pc' = "raised"
            /\ UNCHANGED jobs
       ELSE IF job_id \notin 1..Len(jobs)
       THEN /\ error' = "JobNotFound"
            /\ pc' = "raised"
            /\ UNCHANGED jobs
       ELSE IF ~Reviewable(jobs[job_id].outcome)
       THEN /\ error' = "InvalidJobType"
            /\ pc' = "raised"
            /\ UNCHANGED jobs
       ELSE /\ error' = "none"
            /\ jobs' = [jobs EXCEPT ![job_id].outcome.summary = Strip(summary)]
            /\ UNCHANGED pc
    /\ view' = NoView
    /\ UNCHANGED <<pages, page_jobs, source_jobs, emitted, crawl, gen, queued>>
    /\ UNCHANGED <<dispatched, detached>>

FilteredOutcome_dropped(outcome) ==
    IF outcome.kind = "scrape" THEN NoOutcome ELSE outcome

\* filter_markdown_from_scrape_results: the outcome a job is left with
FilteredOutcome(outcome) ==
    IF outcome.kind = "scrape"
    THEN ScrapeJobResult("", outcome.internal_links)
    ELSE outcome

\* the jobs in Source.jobs or in the jobs of one of the source's pages
ListedJobs ==
    SeqToSet(source_jobs) \cup UNION {SeqToSet(page_jobs[u]) : u \in SeqToSet(pages)}

\* filter_markdown_from_scrape_results applied to the loaded source: the
\* outcome of the loaded Job objects is assigned anew
FilterMarkdownFromScrapeResults ==
    /\ Idle
    /\ jobs' = [j \in 1..Len(jobs) |->
                  IF j \in ListedJobs
                  THEN [jobs[j] EXCEPT !.outcome = FilteredOutcome(@)]
                  ELSE jobs[j]]
    /\ error' = "none"
    /\ UNCHANGED <<pages, page_jobs, source_jobs, emitted, pc, crawl, gen, queued>>
    /\ view' = NoView
    /\ UNCHANGED <<dispatched, detached>>

\* hasattr(job.outcome, 'review_status') and review_status == UNREVIEWED
IsUnreviewed(j) ==
    /\ Reviewable(jobs[j].outcome)
    /\ jobs[j].outcome.review_status = "Unreviewed"

\* isinstance(job.outcome, JobError)
IsFailed(j) == jobs[j].outcome.kind = "error"

\* get_sources_with_unreviewed_jobs: the WHERE clause for the source.  A job
\* row has source_url set when it is in Source.jobs and page_url set when it
\* is in Page.jobs, so only the source-level branch of the query can match.
SelectedUnreviewed ==
    \E j \in SeqToSet(source_jobs) :
        jobs[j].outcome.kind = "summarize" /\ jobs[j].outcome.review_status = "Unreviewed"

\* get_sources_with_failed_jobs: the WHERE clause for the source
SelectedFailed == \E j \in SeqToSet(source_jobs) : IsFailed(j)

\* the pruning loop of get_unreviewed_jobs / get_failed_jobs over the pages
RECURSIVE FilteredPages(_, _)
FilteredPages(ps, kept) ==
    IF ps = <<>> THEN <<>>
    ELSE LET page_jobs_kept == SelectSeq(page_jobs[Head(ps)], LAMBDA j : j \in kept) IN
         IF page_jobs_kept /= <<>>
         THEN <<[url |-> Head(ps), jobs |-> page_jobs_kept]>> \o FilteredPages(Tail(ps), kept)
         ELSE FilteredPages(Tail(ps), kept)

\* the list get_unreviewed_jobs / get_failed_jobs returns
PrunedSources(selected, kept) ==
    LET source_jobs_kept == SelectSeq(source_jobs, LAMBDA j : j \in kept)
        filtered_pages == FilteredPages(pages, kept)
    IN IF selected /\ (source_jobs_kept /= <<>> \/ filtered_pages /= <<>>)
       THEN <<[jobs |-> source_jobs_kept, pages |-> filtered_pages]>>
       ELSE <<>>

\* the pruning of get_unreviewed_jobs done in place on the loaded source
GetUnreviewedJobs_inplace ==
    LET kept == {j \in 1..Len(jobs) : IsUnreviewed(j)} IN
    /\ Idle
    /\ view' = PrunedSources(SelectedUnreviewed, kept)
    /\ source_jobs' = IF view' /= <<>>
                      THEN SelectSeq(source_jobs, LAMBDA j : j \in kept)
                      ELSE source_jobs
    /\ pc' = "returned"
    /\ error' = "none"
    /\ UNCHANGED <<pages, page_jobs, jobs, emitted, crawl, gen, queued>>
    /\ UNCHANGED <<dispatched, detached>>

GetUnreviewedJobs ==
    /\ Idle
    /\ view' = PrunedSources(SelectedUnreviewed, {j \in 1..Len(jobs) : IsUnreviewed(j)})
    /\ pc' = "returned"
    /\ error' = "none"
    /\ UNCHANGED <<pages, page_jobs, source_jobs, jobs, emitted, crawl, gen, queued>>
    /\ UNCHANGED <<dispatched, detached>>

GetFailedJobs ==
    /\ Idle
    /\ view' = PrunedSources(SelectedFailed, {j \in 1..Len(jobs) : IsFailed(j)})
    /\ pc' = "returned"
    /\ error' = "none"
    /\ UNCHANGED <<pages, page_jobs, source_jobs, jobs, emitted, crawl, gen, queued>>
    /\ UNCHANGED <<dispatched, detached>>

\* get_crawled_sources: the WHERE clause for the source
SelectedCrawled == \E j \in SeqToSet(source_jobs) : jobs[j].outcome.kind = "crawl"

\* get_discovered_sources: no job row carries the source's url, and a job
\* row carries it exactly when the job is in Source.jobs
SelectedDiscovered == source_jobs = <<>>

\* get_in_progress_sources: a job row with the source's url and no outcome
SelectedInProgress == \E j \in SeqToSet(source_jobs) : jobs[j].outcome = NoOutcome

\* Source(url=db_source.url, jobs=list(db_source.jobs), pages=[])
SourcesWithoutPages(selected) ==
    IF selected THEN <<[jobs |-> source_jobs, pages |-> <<>>]>> ELSE <<>>

GetCrawledSources ==
    /\ Idle
    /\ view' = SourcesWithoutPages(SelectedCrawled)
    /\ pc' = "returned"
    /\ error' = "none"
    /\ UNCHANGED <<pages, page_jobs, source_jobs, jobs, emitted, crawl, gen, queued>>
    /\ UNCHANGED <<dispatched, detached>>

GetDiscoveredSources ==
    /\ Idle
    /\ view' = SourcesWithoutPages(SelectedDiscovered)
    /\ pc' = "returned"
    /\ error' = "none"
    /\ UNCHANGED <<pages, page_jobs, source_jobs, jobs, emitted, crawl, gen, queued>>
    /\ UNCHANGED <<dispatched, detached>>

GetInProgressSources ==
    /\ Idle
    /\ view' = SourcesWithoutPages(SelectedInProgress)
    /\ pc' = "returned"
    /\ error' = "none"
    /\ UNCHANGED <<pages, page_jobs, source_jobs, jobs, emitted, crawl, gen, queued>>
    /\ UNCHANGED <<dispatched, detached>>

\* the jobs filter_markdown_from_scrape_results visits in one source of its
\* argument: source.jobs, then page.jobs of every page in source.pages
JobsOfReturned(source) ==
    SeqToSet(source.jobs) \cup
    UNION {SeqToSet(source.pages[i].jobs) : i \in 1..Len(source.pages)}

\* filter_markdown_from_scrape_results applied to the sources a read model
\* returned: the Job objects in them are the loaded ones
FilterMarkdownFromReturnedSources ==
    /\ pc = "returned"
    /\ jobs' = [j \in 1..Len(jobs) |->
                  IF \E s \in 1..Len(view) : j \in JobsOfReturned(view[s])
                  THEN [jobs[j] EXCEPT !.outcome = FilteredOutcome(@)]
                  ELSE jobs[j]]
    /\ pc' = "filtered"
    /\ UNCHANGED <<pages, page_jobs, source_jobs, emitted, crawl, gen, queued, error, view>>
    /\ UNCHANGED <<dispatched, detached>>

\* Source.all_extract_jobs_approved: the jobs collected by the two loops
RECURSIVE CollectExtractJobs(_)
CollectExtractJobs(ps) ==
    IF ps = <<>> THEN <<>>
    ELSE SelectSeq(page_jobs[Head(ps)], LAMBDA j : jobs[j].outcome.kind = "extract")
         \o CollectExtractJobs(Tail(ps))

AllExtractJobsApproved_any ==
    LET extract_jobs == CollectExtractJobs(pages) IN
    \E i \in 1..Len(extract_jobs) :
        jobs[extract_jobs[i]].outcome.review_status = "Approved"

AllExtractJobsApproved_vacuous ==
    LET extract_jobs == CollectExtractJobs(pages) IN
    \A i \in 1..Len(extract_jobs) :
        jobs[extract_jobs[i]].outcome.review_status = "Approved"

\* Source.all_extract_jobs_approved()
AllExtractJobsApproved ==
    LET extract_jobs == CollectExtractJobs(pages) IN
    IF extract_jobs = <<>> THEN FALSE
    ELSE \A i \in 1..Len(extract_jobs) :
            jobs[extract_jobs[i]].outcome.review_status = "Approved"

(* --------------------------- specifications ---------------------------- *)

Next ==
    \/ \E max_pages \in 0..MaxPagesBound : CrawlBegin(max_pages)
    \/ CrawlEnterLoop
    \/ \E r \in ScrapeReturns : CrawlScrapeEnd(r)
    \/ CrawlAfterScrape
    \/ \E r \in ExtractReturns : CrawlExtractEnd(r)
    \/ CrawlAfterExtract
    \/ CrawlReturn
    \/ CommitFails

\* one crawl of a source just constructed
Spec == Init /\ [][Next]_vars

\* the commit of the caller returned and the generator of crawl_source is
\* resumed: the collaborator awaited at that point returns or throws
CrawlResumed ==
    \/ CrawlEnterLoop
    \/ \E r \in ScrapeReturns : CrawlScrapeEnd(r)
    \/ CrawlAfterScrape
    \/ \E r \in ExtractReturns : CrawlExtractEnd(r)
    \/ CrawlAfterExtract
    \/ CrawlReturn

\* one crawl in which every collaborator call returns or throws and the event
\* loop resumes the generator whenever the awaited commit has returned
SpecLive == Spec /\ WF_vars(CrawlResumed)

\* the urls, texts and collaborator results the operations of SpecOps use
OpsUrls == {SourceUrl}

OpsScrapeReturns ==
    {r \in ScrapeReturns : r.throws \/ r.internal_links = <<NumUrls>>}

OpsExtractReturns ==
    {r \in ExtractReturns : r.throws \/ r.next_internal_link = NoLink}

\* summary texts as sequences of characters; " " is whitespace
Texts == {<<>>, <<" ">>, <<" ", " ">>, <<" ", "a", " ">>}

\* a new job may be constructed: at most MaxJobs jobs are constructed
Room(n) == Len(jobs) + n <= MaxJobs

NextOps ==
    \/ \E max_pages \in 0..1 : Room(1 + 2 * max_pages) /\ CrawlBegin(max_pages)
    \/ CrawlEnterLoop
    \/ \E r \in OpsScrapeReturns : CrawlScrapeEnd(r)
    \/ CrawlAfterScrape
    \/ \E r \in OpsExtractReturns : CrawlExtractEnd(r)
    \/ CrawlAfterExtract
    \/ CrawlReturn
    \/ CommitFails
    \/ UnitOfWorkExit
    \/ \E u \in OpsUrls : AddPageToSource(u)
    \/ \E u \in OpsUrls : PageNotFound(u)
    \/ \E u \in OpsUrls : Room(1) /\ ServiceScrapeBegin(u)
    \/ \E r \in OpsScrapeReturns : ServiceScrapeEnd(r)
    \/ \E u \in OpsUrls : Room(1) /\ ServiceExtractBegin(u)
    \/ \E r \in OpsExtractReturns : ServiceExtractEnd(r)
    \/ Room(1) /\ ServiceSummarizeBegin
    \/ \E r \in SummarizeReturns : ServiceSummarizeEnd(r)
    \/ ServiceReturn
    \/ \E job_id \in 1..(Len(jobs) + 1) : ApproveJob(job_id)
    \/ \E job_id \in 1..(Len(jobs) + 1), summary \in Texts :
          EditJobOutcomeSummary(job_id, summary)
    \/ FilterMarkdownFromScrapeResults
    \/ GetUnreviewedJobs
    \/ GetFailedJobs
    \/ GetCrawledSources
    \/ GetDiscoveredSources
    \/ GetInProgressSources
    \/ FilterMarkdownFromReturnedSources

\* any sequence of the operations on one source
SpecOps == Init /\ [][NextOps]_vars

ReviewUrls == {SourceUrl, SourceUrl + 1}

NextReview ==
    \/ \E u \in ReviewUrls : AddPageToSource(u)
    \/ \E u \in ReviewUrls : PageNotFound(u)
    \/ \E u \in ReviewUrls : Room(1) /\ ServiceScrapeBegin(u)
    \/ \E r \in OpsScrapeReturns : ServiceScrapeEnd(r)
    \/ \E u \in ReviewUrls : Room(1) /\ ServiceExtractBegin(u)
    \/ \E r \in OpsExtractReturns : ServiceExtractEnd(r)
    \/ ServiceReturn
    \/ \E job_id \in 1..(Len(jobs) + 1) : ApproveJob(job_id)
    \/ UnitOfWorkExit

\* pages of one source are added, scraped and extracted, and results approved
SpecReview == Init /\ [][NextReview]_vars



(* ===================== properties of one crawl (Spec) ================== *)

JobIds == [i \in 1..Len(jobs) |-> i]

\* the url of the Page that owns page job j
PageOf(j) == CHOOSE u \in URLS : Contains(page_jobs[u], j)

\* the jobs constructed since the running crawl began, in order of construction
JobsOfCrawl(type) ==
    SelectSeq(JobIds, LAMBDA j : j > crawl.crawl_job /\ jobs[j].type = type)

\* the urls the running crawl appended a ScrapeJob for, in that order
ScrapedUrls ==
    LET ids == JobsOfCrawl("scrape") IN [i \in 1..Len(ids) |-> PageOf(ids[i])]

CrawlStarted == crawl.crawl_job /= 0

CrawlOutcome == jobs[crawl.crawl_job].outcome

\* the crawl has been resumed after the pending emission of its CrawlJob
LoopEntered == queued /= <<>>

NoDuplicates(s) == \A i, k \in 1..Len(s) : s[i] = s[k] => i = k

MergedLinks ==
    UNION {SeqToSet(jobs[j].outcome.internal_links) :
             j \in {k \in SeqToSet(JobsOfCrawl("scrape")) :
                      /\ jobs[k].outcome.kind = "scrape"
                      /\ \E e \in SeqToSet(JobsOfCrawl("extract")) : e > k}}

\* the next links of the ExtractJobResults the crawl has seen so far
NextLinks ==
    {jobs[j].outcome.next_internal_link :
        j \in {k \in SeqToSet(JobsOfCrawl("extract")) : jobs[k].outcome.kind = "extract"}}

C4_Case ==
    /\ pc = "done"
    /\ crawl.max_pages = 1
    /\ Len(JobsOfCrawl("scrape")) >= 1
    /\ LET s == JobsOfCrawl("scrape")[1] IN
          /\ jobs[s].outcome.kind = "scrape"
          /\ Len(jobs[s].outcome.internal_links) = 3
    /\ Len(JobsOfCrawl("extract")) >= 1
    /\ jobs[JobsOfCrawl("extract")[1]].outcome.kind = "extract"

FailedPageJobs ==
    {j \in SeqToSet(JobsOfCrawl("scrape")) \cup SeqToSet(JobsOfCrawl("extract")) :
        jobs[j].outcome.kind = "error"}

C6_FatalErrorRecorded ==
    error = "CommitError" =>
        /\ CrawlOutcome.kind = "error"
        /\ emitted[Len(emitted)] = Emission(crawl.crawl_job, JobError)

\* the position of the first scraped page whose ScrapeJobResult lists u; 0 if none
DiscoveredAt(u) ==
    LET ids == JobsOfCrawl("scrape")
        at == {i \in 1..Len(ids) :
                 /\ jobs[ids[i]].outcome.kind = "scrape"
                 /\ Contains(jobs[ids[i]].outcome.internal_links, u)}
    IN IF at = {} THEN 0 ELSE CHOOSE i \in at : \A k \in at : i <= k

CrawlUrlTask == [task |-> "crawl_url", source_url |-> SourceUrl]

\* the message auto_summarize_source.delay(source_url) would put on the queue
AutoSummarizeTask == [task |-> "auto_summarize_source", source_url |-> SourceUrl]

\* POST /crawl: crawl_url.delay(data.url, data.max_pages, ...)
CrawlUrlEndpoint ==
    /\ Idle
    /\ dispatched' = Append(dispatched, CrawlUrlTask)
    /\ UNCHANGED <<pages, page_jobs, source_jobs, jobs, emitted, pc, crawl, gen, queued,
                   error, view>>
    /\ UNCHANGED detached

NextApprove ==
    \/ \E u \in ReviewUrls : AddPageToSource(u)
    \/ \E u \in ReviewUrls : PageNotFound(u)
    \/ \E u \in ReviewUrls : Room(1) /\ ServiceScrapeBegin(u)
    \/ \E r \in OpsScrapeReturns : ServiceScrapeEnd(r)
    \/ \E u \in ReviewUrls : Room(1) /\ ServiceExtractBegin(u)
    \/ \E r \in OpsExtractReturns : ServiceExtractEnd(r)
    \/ Room(1) /\ ServiceSummarizeBegin
    \/ \E r \in SummarizeReturns : ServiceSummarizeEnd(r)
    \/ ServiceReturn
    \/ \E job_id \in 1..(Len(jobs) + 1) : ApproveJob(job_id)
    \/ UnitOfWorkExit
    \/ Len(dispatched) < MaxDispatched /\ CrawlUrlEndpoint

\* pages are added, scraped, extracted and approved while crawls are requested
SpecApprove == Init /\ [][NextApprove]_vars

(* ----------------- structured completion with retry -------------------- *)

max_retries == 3

\* asyncio.sleep(120): the seconds waited before the next attempt
RetryDelay == 120

\* what one call of litellm.completion gives: an exception or a response
CompletionReturns ==
    {[throws |-> TRUE, error |-> e] : e \in 1..NumErrors} \cup
    {[throws |-> FALSE, response |-> "resp"]}

RetryAgain_never(attempt) == FALSE

\* if attempt < max_retries - 1
RetryAgain(attempt) == attempt < max_retries - 1

NotCompletion ==
    <<pages, page_jobs, source_jobs, jobs, emitted, pc, crawl, gen, queued, error, view,
      dispatched, complete, construction, extraction, registry, fleet, session, record, intake, chat>>

\* _completion_with_retry is called: for attempt in range(max_retries)
CompletionBegin ==
    /\ completion.pc = "idle"
    /\ completion' = [NoCompletion EXCEPT !.pc = IF 0 < max_retries THEN "calling" ELSE "returned"]
    /\ UNCHANGED NotCompletion

\* the try block: completion(...) returns, or raises into the except clause
CompletionCallEnd(r) ==
    /\ completion.pc = "calling"
    /\ completion' =
          IF ~r.throws
          THEN [completion EXCEPT !.calls = Append(@, r),
                                  !.response = r.response,
                                  !.pc = "returned"]
          ELSE IF RetryAgain(completion.attempt)
               THEN [completion EXCEPT !.calls = Append(@, r),
                                       !.slept = Append(@, RetryDelay),
                                       !.pc = "sleeping"]
               ELSE [completion EXCEPT !.calls = Append(@, r),
                                       !.raised = r.error,
                                       !.pc = "raised"]
    /\ UNCHANGED NotCompletion

\* asyncio.sleep returns; continue: the next attempt of the range, or the
\* end of the function when the range is exhausted
CompletionSleepEnd ==
    /\ completion.pc = "sleeping"
    /\ completion' = [completion EXCEPT
                        !.attempt = @ + 1,
                        !.pc = IF completion.attempt + 1 < max_retries
                               THEN "calling" ELSE "returned"]
    /\ UNCHANGED NotCompletion

\* the caller has the response or the exception
CompletionExit ==
    /\ completion.pc \in {"returned", "raised"}
    /\ completion' = NoCompletion
    /\ UNCHANGED NotCompletion

NextCompletion ==
    \/ CompletionBegin
    \/ \E r \in CompletionReturns : CompletionCallEnd(r)
    \/ CompletionSleepEnd
    \/ CompletionExit

\* one structured-completion call after another
SpecCompletion == Init /\ [][NextCompletion]_vars

(* ------------- LiteLLMStructuredCompletion.complete -------------------- *)

\* what msgspec.json.decode gives for the content of a response: a JSON
\* object with some top-level keys or another JSON value; whether
\* msgspec.convert accepts it for the response type (a dataclass, so only
\* an object is accepted); and, for an object with a key, whether
\* msgspec.convert accepts the value under its first key
Contents ==
    {[object |-> TRUE, keys |-> 0, valid |-> v, first |-> "none"] : v \in BOOLEAN} \cup
    {[object |-> TRUE, keys |-> k, valid |-> v, first |-> f] :
        k \in 1..MaxKeys, v \in BOOLEAN, f \in {"valid", "invalid"}} \cup
    {[object |-> FALSE, keys |-> 0, valid |-> FALSE, first |-> "none"]}

NotComplete ==
    <<pages, page_jobs, source_jobs, jobs, emitted, pc, crawl, gen, queued, error, view,
      dispatched>>

\* _completion_with_retry has returned resp; its content is decoded
CompleteDecode(content) ==
    /\ complete.pc = "idle"
    /\ completion.pc = "returned"
    /\ completion.response /= "none"
    /\ complete' = [NoComplete EXCEPT !.pc = "decoded", !.content = content]
    /\ UNCHANGED <<NotComplete, completion, construction, extraction, registry, fleet, session, record, intake, chat>>

\* the try block: msgspec.convert(content, response_type)
CompleteConvert ==
    /\ complete.pc = "decoded"
    /\ complete' =
          IF complete.content.valid
          THEN [complete EXCEPT !.conversions = @ + 1, !.result = "content",
                                !.pc = "returned"]
          ELSE [complete EXCEPT !.conversions = @ + 1, !.pc = "except"]
    /\ UNCHANGED <<NotComplete, completion, construction, extraction, registry, fleet, session, record, intake, chat>>

\* except msgspec.ValidationError: content[list(content.keys())[0]] is
\* taken and converted
CompleteUnwrap ==
    /\ complete.pc = "except"
    /\ complete' =
          IF ~complete.content.object
          THEN [complete EXCEPT !.raised = "AttributeError", !.pc = "raised"]
          ELSE IF complete.content.keys = 0
          THEN [complete EXCEPT !.raised = "IndexError", !.pc = "raised"]
          ELSE IF complete.content.first = "valid"
          THEN [complete EXCEPT !.conversions = @ + 1, !.result = "first value",
                                !.pc = "returned"]
          ELSE [complete EXCEPT !.conversions = @ + 1, !.raised = "ValidationError",
                                !.pc = "raised"]
    /\ UNCHANGED <<NotComplete, completion, construction, extraction, registry, fleet, session, record, intake, chat>>

\* the caller of complete has the converted value or the exception
CompleteExit ==
    /\ complete.pc \in {"returned", "raised"}
    /\ complete' = NoComplete
    /\ completion' = NoCompletion
    /\ UNCHANGED <<NotComplete, construction, extraction, registry, fleet, session, record, intake, chat>>

NextComplete ==
    \/ complete.pc = "idle" /\ CompletionBegin
    \/ \E r \in CompletionReturns : CompletionCallEnd(r)
    \/ CompletionSleepEnd
    \/ completion.pc = "raised" /\ CompletionExit
    \/ \E content \in Contents : CompleteDecode(content)
    \/ CompleteConvert
    \/ CompleteUnwrap
    \/ CompleteExit

\* one call of complete after another
SpecComplete == Init /\ [][NextComplete]_vars

(* --------------------------- NormalizedUrl ----------------------------- *)

\* a string is a sequence of pieces: the word "https" or one of the
\* characters ":", "/" and "a" (any other character)
Pieces == {"https", ":", "/", "a"}

Strings == UNION {[1..n -> Pieces] : n \in 0..MaxUrlLen}

\* url.startswith(prefix)
StartsWith(url, prefix) ==
    /\ Len(url) >= Len(prefix)
    /\ SubSeq(url, 1, Len(prefix)) = prefix

RStrip_once(url) ==
    IF url /= <<>> /\ url[Len(url)] = "/" THEN SubSeq(url, 1, Len(url) - 1) ELSE url

\* url.rstrip("/")
RECURSIVE RStrip(_)
RStrip(url) ==
    IF url /= <<>> /\ url[Len(url)] = "/"
    THEN RStrip(SubSeq(url, 1, Len(url) - 1))
    ELSE url

\* url.count("://"): the occurrences found scanning from the left, each
\* search resuming after the previous occurrence
RECURSIVE Count(_)
Count(url) ==
    IF Len(url) < 3 THEN 0
    ELSE IF SubSeq(url, 1, 3) = <<":", "/", "/">>
         THEN 1 + Count(SubSeq(url, 4, Len(url)))
         ELSE Count(Tail(url))

ValidFormat_atleast(normalized_url) == Count(normalized_url) >= 1

\* normalized_url.count("://") == 1
ValidFormat(normalized_url) == Count(normalized_url) = 1

InvalidUrlError == [raised |-> "InvalidUrl", value |-> <<>>]

\* NormalizedUrl(url): the value, or InvalidUrlError raised
NewNormalizedUrl(url) ==
    IF url = <<>> THEN InvalidUrlError
    ELSE IF ~StartsWith(url, <<"https", ":", "/", "/">>) THEN InvalidUrlError
    ELSE LET normalized_url == RStrip(url) IN
         IF ~ValidFormat(normalized_url) THEN InvalidUrlError
         ELSE [raised |-> "none", value |-> normalized_url]

\* what try_new returns in place of a value
None == <<"None">>

\* NormalizedUrl.try_new(url)
TryNew(url) ==
    IF NewNormalizedUrl(url).raised = "InvalidUrl"
    THEN [raised |-> "none", value |-> None]
    ELSE NewNormalizedUrl(url)

NotConstruction ==
    <<pages, page_jobs, source_jobs, jobs, emitted, pc, crawl, gen, queued, error, view,
      dispatched, completion, complete, extraction, registry, fleet, session, record, intake, chat>>

\* a caller constructs from url, once with NormalizedUrl(url) and once with
\* NormalizedUrl.try_new(url)
Construct(url) ==
    /\ construction.pc = "idle"
    /\ construction' = [pc |-> "constructed", url |-> url,
                        new |-> NewNormalizedUrl(url), try_new |-> TryNew(url)]
    /\ UNCHANGED NotConstruction

\* the caller is done with the value
ConstructionExit ==
    /\ construction.pc = "constructed"
    /\ construction' = NoConstruction
    /\ UNCHANGED NotConstruction

NextConstruction ==
    \/ construction.pc = "idle" /\ \E url \in Strings : Construct(url)
    \/ ConstructionExit

\* one construction of a NormalizedUrl after another
SpecConstruction == Init /\ [][NextConstruction]_vars

(* ----------------------- HtmlManualLinkExtractor ----------------------- *)

\* the url of the page whose markup is read: a NormalizedUrl
base_url == <<"https", ":", "/", "/", "a", "/", "docs">>

\* the hrefs an anchor of the markup may carry, as strings of pieces: the
\* schemes, ":", "/", "#", the hosts "a" (the page's) and "b", path segments
\* and the suffixes ".pdf" and ".PDF"
Hrefs ==
    { <<"https", ":", "/", "/", "a", "/", "x">>,
      <<"https", ":", "/", "/", "a", "/", "x", "/">>,
      <<"/", "x">>,
      <<"https", ":", "/", "/", "b", "/", "x">>,
      <<"https", ":", "/", "/", "a", "/", "r", ".pdf">>,
      <<"r", ".pdf">>,
      <<"https", ":", "/", "/", "b", "/", "r", ".pdf">>,
      <<"https", ":", "/", "/", "a", "/", "r", ".PDF">>,
      <<"https", ":", "/", "/", "a", "/", "r", ".pdf", "/">>,
      <<"http", ":", "/", "/", "a", "/", "x">>,
      <<"https", ":", "/", "/", "a", "/", "login">>,
      <<"#">> }

\* re.findall(href_pattern, html_content): the hrefs of the anchors, in order
Markups == UNION {[1..n -> Hrefs] : n \in 0..MaxHrefs}

\* self.file_extensions, of which ".pdf" stands for all
file_extensions == {".pdf"}

\* str.lower() on one piece
Lower(piece) == IF piece = ".PDF" THEN ".pdf" ELSE piece

\* self.exclude_patterns, of which r'/login' stands for all
RECURSIVE IsExcludedUrl(_)
IsExcludedUrl(url) ==
    IF Len(url) < 2 THEN FALSE
    ELSE IF url[1] = "/" /\ Lower(url[2]) = "login" THEN TRUE
    ELSE IsExcludedUrl(Tail(url))

\* url.startswith(('http://', 'https://'))
IsAbsolute(url) ==
    \/ StartsWith(url, <<"http", ":", "/", "/">>)
    \/ StartsWith(url, <<"https", ":", "/", "/">>)

\* urljoin(base, path) for a path without scheme: a path that begins with
\* "/" replaces the path of base, another one replaces its last segment
UrlJoin(base, path) ==
    LET slashes == {i \in 1..Len(base) : base[i] = "/"}
        last == CHOOSE i \in slashes : \A k \in slashes : k <= i
    IN IF path[1] = "/" THEN SubSeq(base, 1, 5) \o path
       ELSE IF last <= 4 THEN base \o <<"/">> \o path
       ELSE SubSeq(base, 1, last) \o path

\* urlparse(url).netloc of a url with a scheme
Netloc(url) == IF Len(url) >= 5 /\ url[5] /= "/" THEN <<url[5]>> ELSE <<>>

\* urlparse(url).path of a url with a scheme
Path(url) == IF Len(url) >= 6 THEN SubSeq(url, 6, Len(url)) ELSE <<>>

\* _is_file_url: the path of the lowered url ends with a file extension
IsFileUrl(url) ==
    LET path == Path(url) IN
    path /= <<>> /\ Lower(path[Len(path)]) \in file_extensions

\* _is_internal_url
IsInternalUrl(url, base) ==
    \/ Netloc(url) = <<>>
    \/ Netloc(url) = Netloc(base)

Categorize_domainfirst(url) ==
    IF IsInternalUrl(url, base_url) THEN "internal"
    ELSE IF IsFileUrl(url) THEN "file"
    ELSE "external"

\* the if / elif / else that categorizes the url
Categorize(url) ==
    IF IsFileUrl(url) THEN "file"
    ELSE IF IsInternalUrl(url, base_url) THEN "internal"
    ELSE "external"

\* the body of the loop over the matches, from the first to the last
RECURSIVE ExtractLinks(_, _, _)
ExtractLinks(matches, seen_urls, links) ==
    IF matches = <<>> THEN links
    ELSE LET match == Head(matches)
             url == IF IsAbsolute(match) THEN match ELSE UrlJoin(base_url, match)
             normalized_url == TryNew(url).value
         IN IF match = <<>> \/ match[1] = "#" THEN
                ExtractLinks(Tail(matches), seen_urls, links)
            ELSE IF IsExcludedUrl(match) THEN
                ExtractLinks(Tail(matches), seen_urls, links)
            ELSE IF url \in seen_urls THEN
                ExtractLinks(Tail(matches), seen_urls, links)
            ELSE IF normalized_url = None THEN
                ExtractLinks(Tail(matches), seen_urls \cup {url}, links)
            ELSE IF Categorize(url) = "file" THEN
                ExtractLinks(Tail(matches), seen_urls \cup {url},
                             [links EXCEPT !.file_links = Append(@, normalized_url)])
            ELSE IF Categorize(url) = "internal" THEN
                ExtractLinks(Tail(matches), seen_urls \cup {url},
                             [links EXCEPT !.internal_links = Append(@, normalized_url)])
            ELSE
                ExtractLinks(Tail(matches), seen_urls \cup {url},
                             [links EXCEPT !.external_links = Append(@, normalized_url)])

NotExtraction ==
    <<pages, page_jobs, source_jobs, jobs, emitted, pc, crawl, gen, queued, error, view,
      dispatched, completion, complete, construction, registry, fleet, session, record, intake, chat>>

\* extract_links_from_html(html_content, base_url)
ExtractLinksFromHtml(matches) ==
    /\ extraction.pc = "idle"
    /\ extraction' =
          [ExtractLinks(matches, {}, [NoExtraction EXCEPT !.matches = matches])
              EXCEPT !.pc = "returned"]
    /\ UNCHANGED NotExtraction

\* the caller has the three lists
ExtractionExit ==
    /\ extraction.pc = "returned"
    /\ extraction' = NoExtraction
    /\ UNCHANGED NotExtraction

NextExtraction ==
    \/ extraction.pc = "idle" /\ \E matches \in Markups : ExtractLinksFromHtml(matches)
    \/ ExtractionExit

\* one page's markup after another is read
SpecExtraction == Init /\ [][NextExtraction]_vars

(* ------------------------------ add_source ----------------------------- *)

\* the urls add_source is called with: two spellings of one url, another
\* url, and one that is no NormalizedUrl
AddSourceUrls ==
    { <<"https", ":", "/", "/", "a">>,
      <<"https", ":", "/", "/", "a", "/">>,
      <<"https", ":", "/", "/", "b">>,
      <<"http", ":", "/", "/", "a">> }

PrimaryKeyViolated_never(url) == FALSE

\* Column("url", String(255), primary_key=True): a row with this url exists
PrimaryKeyViolated(url) == Contains(registry.sources, url)

NotRegistry ==
    <<pages, page_jobs, source_jobs, jobs, emitted, pc, crawl, gen, queued, error, view,
      dispatched, completion, complete, construction, extraction, fleet, session, record, intake, chat>>

\* normalized_url = NormalizedUrl(url)
AddSourceBegin(caller, url) ==
    /\ registry.calls[caller].pc = "idle"
    /\ registry' =
          IF NewNormalizedUrl(url).raised = "InvalidUrl"
          THEN [registry EXCEPT !.calls[caller] =
                   [pc |-> "raised", url |-> url, normalized_url |-> <<>>,
                    error |-> "InvalidUrl"]]
          ELSE [registry EXCEPT !.calls[caller] =
                   [pc |-> "normalized", url |-> url,
                    normalized_url |-> NewNormalizedUrl(url).value, error |-> "none"]]
    /\ UNCHANGED NotRegistry

\* existing_source = await uow.sources.get(normalized_url)
AddSourceGet(caller) ==
    /\ registry.calls[caller].pc = "normalized"
    /\ registry' =
          IF Contains(registry.sources, registry.calls[caller].normalized_url)
          THEN [registry EXCEPT !.calls[caller].pc = "raised",
                                !.calls[caller].error = "SourceAlreadyExists"]
          ELSE [registry EXCEPT !.calls[caller].pc = "checked"]
    /\ UNCHANGED NotRegistry

\* uow.sources.add(source); uow.commit(): the row is inserted, or the
\* database refuses it and the commit raises
AddSourceCommit(caller) ==
    /\ registry.calls[caller].pc = "checked"
    /\ registry' =
          IF PrimaryKeyViolated(registry.calls[caller].normalized_url)
          THEN [registry EXCEPT !.calls[caller].pc = "raised",
                                !.calls[caller].error = "IntegrityError"]
          ELSE [registry EXCEPT !.sources = Append(@, registry.calls[caller].normalized_url),
                                !.calls[caller].pc = "returned"]
    /\ UNCHANGED NotRegistry

\* the caller has the Source or the exception; its unit of work is left
AddSourceExit(caller) ==
    /\ registry.calls[caller].pc \in {"returned", "raised"}
    /\ registry' = [registry EXCEPT !.calls[caller] = NoCall]
    /\ UNCHANGED NotRegistry

NextRegistry ==
    \/ \E caller \in 1..NumCallers, url \in AddSourceUrls : AddSourceBegin(caller, url)
    \/ \E caller \in 1..NumCallers : AddSourceGet(caller)
    \/ \E caller \in 1..NumCallers : AddSourceCommit(caller)
    \/ \E caller \in 1..NumCallers : AddSourceExit(caller)

\* add_source calls that interleave at their awaits
SpecRegistry == Init /\ [][NextRegistry]_vars

(* ------------------- crawls of several sources ------------------------- *)

\* source s has the url s; one more url is a page both sources link to
FleetUrls == 1..(NumSources + 1)

\* Column("url", String(255), primary_key=True) of the pages table: a row
\* with this url exists
PageKeyViolated(url) == \E i \in 1..Len(fleet.pages) : fleet.pages[i].url = url

NotFleet ==
    <<pages, page_jobs, source_jobs, jobs, emitted, pc, crawl, gen, queued, error, view,
      dispatched, completion, complete, construction, extraction, registry, session, record, intake, chat>>

\* crawl_source(max_pages) up to the pending emission of the CrawlJob and
\* the first test of the loop condition
FleetCrawlBegin(source, max_pages) ==
    /\ fleet.crawls[source].pc = "idle"
    /\ fleet' = [fleet EXCEPT !.crawls[source] =
                    [@ EXCEPT !.pc = "loop", !.max_pages = max_pages,
                              !.url_queue = <<source>>, !.processed_pages = {},
                              !.pages_crawled = 0, !.outcome = "none"]]
    /\ UNCHANGED NotFleet

\* one pass of the loop head: the url is popped, its Page found in
\* self.pages or constructed and appended, and the pending ScrapeJob yielded
FleetVisit(source) ==
    LET c == fleet.crawls[source]
        current_url == Head(c.url_queue)
    IN /\ c.pc = "loop"
       /\ c.url_queue /= <<>>
       /\ c.pages_crawled < c.max_pages
       /\ fleet' = [fleet EXCEPT !.crawls[source] =
                       [@ EXCEPT !.pc = "scrape_pending",
                                 !.url_queue = Tail(c.url_queue),
                                 !.processed_pages = @ \cup {current_url},
                                 !.current_url = current_url,
                                 !.pages = IF Contains(@, current_url) THEN @
                                           ELSE Append(@, current_url)]]
       /\ UNCHANGED NotFleet

\* await uow.commit() after the pending ScrapeJob: a Page constructed in
\* this pass is inserted into the pages table, or the database refuses the
\* row and the commit raises out of services.crawl_source
FleetCommit(source) ==
    LET c == fleet.crawls[source]
        stored == \E i \in 1..Len(fleet.pages) :
                     fleet.pages[i] = [url |-> c.current_url, source_url |-> source]
    IN /\ c.pc = "scrape_pending"
       /\ fleet' =
             IF stored THEN [fleet EXCEPT !.crawls[source].pc = "scraping"]
             ELSE IF PageKeyViolated(c.current_url)
             THEN [fleet EXCEPT !.crawls[source].pc = "raised",
                                !.crawls[source].outcome = "IntegrityError"]
             ELSE [fleet EXCEPT !.pages = Append(@, [url |-> c.current_url,
                                                    source_url |-> source]),
                                !.crawls[source].pc = "scraping"]
       /\ UNCHANGED NotFleet

\* the ScrapeJob and, after a ScrapeJobResult, the ExtractJob of the page
\* end; the url the summarizer selected is queued; pages_crawled += 1
FleetPageEnd(source, scrape_throws, next_internal_link) ==
    LET c == fleet.crawls[source] IN
    /\ c.pc = "scraping"
    /\ fleet' = [fleet EXCEPT !.crawls[source] =
                    [@ EXCEPT !.pc = "loop",
                              !.pages_crawled = @ + 1,
                              !.url_queue =
                                  IF /\ ~scrape_throws
                                     /\ next_internal_link /= NoLink
                                     /\ next_internal_link \notin c.processed_pages
                                  THEN Append(@, next_internal_link) ELSE @]]
    /\ UNCHANGED NotFleet

\* the loop is left: the CrawlJob gets its CrawlJobResult
FleetCrawlEnd(source) ==
    LET c == fleet.crawls[source] IN
    /\ c.pc = "loop"
    /\ ~(c.url_queue /= <<>> /\ c.pages_crawled < c.max_pages)
    /\ fleet' = [fleet EXCEPT !.crawls[source].pc = "done",
                              !.crawls[source].outcome = "CrawlJobResult"]
    /\ UNCHANGED NotFleet

NextFleet ==
    \/ \E source \in 1..NumSources, max_pages \in 1..MaxFleetPages :
          FleetCrawlBegin(source, max_pages)
    \/ \E source \in 1..NumSources : FleetVisit(source)
    \/ \E source \in 1..NumSources : FleetCommit(source)
    \/ \E source \in 1..NumSources, scrape_throws \in BOOLEAN,
          next_internal_link \in {NoLink, NumSources + 1} :
          FleetPageEnd(source, scrape_throws, next_internal_link)
    \/ \E source \in 1..NumSources : FleetCrawlEnd(source)

\* one crawl of each source, interleaved at their awaits
SpecFleet == Init /\ [][NextFleet]_vars

(* ------- the unit of work of a service call that drives a generator ----- *)

\* the service functions that commit in the body of an async for over a job
\* generator, with the type of the first job the generator appends
GeneratorOps ==
    [scrape_page |-> "scrape", extract_page |-> "extract",
     summarize_source |-> "summarize", crawl_source |-> "crawl"]

NotSession ==
    <<pages, page_jobs, source_jobs, jobs, emitted, pc, crawl, gen, queued, error, view,
      dispatched, completion, complete, construction, extraction, registry, fleet, record, intake, chat>>

\* the jobs of memory with the outcome of job i set
Ended(memory, i) == [memory EXCEPT ![i].terminal = TRUE]

\* what the generator of the call does to the jobs in memory when it runs
\* from one yield to the next: a job is constructed and appended, or the
\* outcome of a pending job is assigned; the empty set when it is exhausted
Mutations(s) ==
    LET mine == SubSeq(s.memory, s.first, Len(s.memory))
        last == Len(s.memory)
        room == Len(s.memory) < MaxSessionJobs
        pending(type) == [type |-> type, terminal |-> FALSE]
    IN IF mine = <<>>
       THEN {Append(s.memory, pending(GeneratorOps[s.op]))}
       ELSE IF mine[1].terminal THEN {}
       ELSE IF s.op /= "crawl_source" THEN {Ended(s.memory, last)}
       ELSE IF ~s.memory[last].terminal /\ last > s.first
            THEN {Ended(s.memory, last)}
       ELSE {Ended(s.memory, s.first)}
            \cup (IF room /\ (last = s.first \/ s.memory[last].type = "extract")
                  THEN {Append(s.memory, pending("scrape"))} ELSE {})
            \cup (IF room /\ last > s.first /\ s.memory[last].type = "scrape"
                  THEN {Append(s.memory, pending("extract"))} ELSE {})

\* async with uow; source = await uow.sources.get(source_url): the stored
\* graph is loaded
SessionEnter(op) ==
    /\ session.pc \in {"closed", "crashed"}
    /\ session.opened < MaxSessions
    /\ Len(session.durable) < MaxSessionJobs
    /\ session' = [session EXCEPT !.pc = "resumed", !.op = op,
                                  !.opened = @ + 1,
                                  !.memory = session.durable,
                                  !.first = Len(session.durable) + 1]
    /\ UNCHANGED NotSession

\* a mutation that is written to the database at once
SessionMutate_autocommit ==
    /\ session.pc = "resumed"
    /\ \E memory \in Mutations(session) :
          session' = [session EXCEPT !.pc = "mutated", !.memory = memory,
                                     !.durable = memory]
    /\ UNCHANGED NotSession

\* the generator is resumed and changes the graph in memory
SessionMutate ==
    /\ session.pc = "resumed"
    /\ \E memory \in Mutations(session) :
          session' = [session EXCEPT !.pc = "mutated", !.memory = memory]
    /\ UNCHANGED NotSession

\* yield job: the job is emitted to the async for of the service function
SessionYield ==
    /\ session.pc = "mutated"
    /\ session' = [session EXCEPT !.pc = "yielded",
                      !.emissions = Append(@, [state |-> session.memory,
                                               committed |-> FALSE])]
    /\ UNCHANGED NotSession

\* await uow.commit() returns: the graph in memory is stored
SessionCommit ==
    /\ session.pc = "yielded"
    /\ session' = [session EXCEPT !.pc = "resumed",
                      !.durable = session.memory,
                      !.emissions[Len(session.emissions)].committed = TRUE]
    /\ UNCHANGED NotSession

\* await uow.commit() raises: the exception leaves the service function
SessionCommitRaises ==
    /\ session.pc = "yielded"
    /\ session' = [session EXCEPT !.pc = "raised"]
    /\ UNCHANGED NotSession

\* the generator is exhausted: return job
SessionReturn ==
    /\ session.pc = "resumed"
    /\ Mutations(session) = {}
    /\ session' = [session EXCEPT !.pc = "returned"]
    /\ UNCHANGED NotSession

\* UnitOfWork.__aexit__: await self.rollback()
SessionExit ==
    /\ session.pc \in {"returned", "raised"}
    /\ session' = [session EXCEPT !.pc = "closed", !.memory = session.durable]
    /\ UNCHANGED NotSession

\* the worker process dies: what it held in memory is lost
SessionCrash ==
    /\ session.pc \in {"resumed", "mutated", "yielded", "returned", "raised"}
    /\ session' = [session EXCEPT !.pc = "crashed", !.memory = <<>>]
    /\ UNCHANGED NotSession

NextSession ==
    \/ \E op \in DOMAIN GeneratorOps : SessionEnter(op)
    \/ SessionMutate
    \/ SessionYield
    \/ SessionCommit
    \/ SessionCommitRaises
    \/ SessionReturn
    \/ SessionExit
    \/ SessionCrash

\* service calls that drive a generator, one unit of work after the other,
\* on one database
SpecSession == Init /\ [][NextSession]_vars

(* ---------- Job.outcome as stored (database/entities.py) ---------------- *)

\* the values assigned to Job.outcome: None, a JobError, one of the four
\* results, or a JobResult that is none of them
OutcomeValues ==
    {NoOutcome, JobError, [kind |-> "scrape"], [kind |-> "extract"],
     [kind |-> "summarize"], [kind |-> "crawl"], [kind |-> "result"]}

NotRecord ==
    <<pages, page_jobs, source_jobs, jobs, emitted, pc, crawl, gen, queued, error, view,
      dispatched, completion, complete, construction, extraction, registry, fleet,
      session, intake, chat>>

\* a or b of Python, for values that are None or an instance of a dataclass
Or(a, b) == IF a /= NoOutcome THEN a ELSE b

\* outcome_getter
outcome_getter(self) ==
    Or(self._error,
       Or(self._scrape_result,
          Or(self._extract_result,
             Or(self._summarize_result, self._crawl_result))))

\* a setter that assigns the matching sub-record and leaves the others
outcome_setter_uncleared(self, value) ==
    IF value.kind = "error" THEN [self EXCEPT !._error = value]
    ELSE IF value.kind = "scrape" THEN [self EXCEPT !._scrape_result = value]
    ELSE IF value.kind = "extract" THEN [self EXCEPT !._extract_result = value]
    ELSE IF value.kind = "summarize" THEN [self EXCEPT !._summarize_result = value]
    ELSE IF value.kind = "crawl" THEN [self EXCEPT !._crawl_result = value]
    ELSE self

\* outcome_setter: the five sub-records are set to None, then the one of
\* the value's class is assigned
outcome_setter(self, value) ==
    LET cleared == [self EXCEPT !._error = NoOutcome, !._scrape_result = NoOutcome,
                                !._extract_result = NoOutcome,
                                !._summarize_result = NoOutcome,
                                !._crawl_result = NoOutcome]
    IN IF value.kind = "error" THEN [cleared EXCEPT !._error = value]
       ELSE IF value.kind = "scrape" THEN [cleared EXCEPT !._scrape_result = value]
       ELSE IF value.kind = "extract" THEN [cleared EXCEPT !._extract_result = value]
       ELSE IF value.kind = "summarize"
            THEN [cleared EXCEPT !._summarize_result = value]
       ELSE IF value.kind = "crawl" THEN [cleared EXCEPT !._crawl_result = value]
       ELSE cleared

\* job.outcome = value
OutcomeAssigned(job, value) ==
    /\ record' = [record EXCEPT !.rows[job] = outcome_setter(@, value)]
    /\ UNCHANGED NotRecord

\* job.outcome is read
OutcomeRead(job) ==
    /\ record' = [record EXCEPT !.job = job,
                                !.read = outcome_getter(record.rows[job])]
    /\ UNCHANGED NotRecord

NextRecord ==
    \/ \E job \in 1..NumRecords, value \in OutcomeValues : OutcomeAssigned(job, value)
    \/ \E job \in 1..NumRecords : OutcomeRead(job)

\* assignments and reads of Job.outcome on the mapped class, in any order
SpecRecord == Init /\ [][NextRecord]_vars

(* -------------------- crawl_url_with_source_check ----------------------- *)

\* the urls crawl_url_with_source_check is called with: two spellings of
\* one url and one that is no NormalizedUrl
CheckUrls ==
    { <<"https", ":", "/", "/", "a", "/">>,
      <<"https", ":", "/", "/", "a">>,
      <<"http", ":", "/", "/", "a">> }

NotIntake ==
    <<pages, page_jobs, source_jobs, jobs, emitted, pc, crawl, gen, queued, error, view,
      dispatched, completion, complete, construction, extraction, registry, fleet,
      session, record, chat>>

\* what no step of crawl_url_with_source_check, delete_source or crawl_url
\* touches
NotIntakeNorRegistry ==
    <<pages, page_jobs, source_jobs, jobs, emitted, pc, crawl, gen, queued, error, view,
      dispatched, completion, complete, construction, extraction, fleet, session,
      record, chat>>

\* the task is put on the queue before the source is looked for
CheckBegin_dispatchfirst(caller, url) ==
    /\ intake.calls[caller].pc = "idle"
    /\ registry.calls[caller].pc = "idle"
    /\ intake' =
          IF NewNormalizedUrl(url).raised = "InvalidUrl"
          THEN [intake EXCEPT !.calls[caller] =
                   [pc |-> "raised", url |-> url, normalized_url |-> <<>>,
                    error |-> "InvalidUrl"]]
          ELSE [intake EXCEPT !.calls[caller] =
                   [pc |-> "normalized", url |-> url,
                    normalized_url |-> NewNormalizedUrl(url).value, error |-> "none"],
                              !.queue = Append(@, NewNormalizedUrl(url).value)]
    /\ UNCHANGED <<registry, NotIntakeNorRegistry>>

\* normalized_url = NormalizedUrl(url)
CheckBegin(caller, url) ==
    /\ intake.calls[caller].pc = "idle"
    /\ registry.calls[caller].pc = "idle"
    /\ intake' =
          IF NewNormalizedUrl(url).raised = "InvalidUrl"
          THEN [intake EXCEPT !.calls[caller] =
                   [pc |-> "raised", url |-> url, normalized_url |-> <<>>,
                    error |-> "InvalidUrl"]]
          ELSE [intake EXCEPT !.calls[caller] =
                   [pc |-> "normalized", url |-> url,
                    normalized_url |-> NewNormalizedUrl(url).value, error |-> "none"]]
    /\ UNCHANGED <<registry, NotIntakeNorRegistry>>

\* await add_source(normalized_url, uow) is entered
CheckAddSource(caller) ==
    /\ intake.calls[caller].pc = "normalized"
    /\ AddSourceBegin(caller, intake.calls[caller].normalized_url)

\* add_source has returned or raised: SourceAlreadyExistsError is passed
\* over and crawl_url.delay(normalized_url, ...) is called; another
\* exception leaves the function
CheckAfterAddSource(caller) ==
    LET call == registry.calls[caller] IN
    /\ intake.calls[caller].pc = "normalized"
    /\ call.pc \in {"returned", "raised"}
    /\ intake' =
          IF call.pc = "returned" \/ call.error = "SourceAlreadyExists"
          THEN [intake EXCEPT !.calls[caller].pc = "returned",
                              !.queue = Append(@, intake.calls[caller].normalized_url)]
          ELSE [intake EXCEPT !.calls[caller].pc = "raised",
                              !.calls[caller].error = call.error]
    /\ registry' = [registry EXCEPT !.calls[caller] = NoCall]
    /\ UNCHANGED NotIntakeNorRegistry

\* the caller has the url or the exception; its unit of work is left
CheckExit(caller) ==
    /\ intake.calls[caller].pc \in {"returned", "raised"}
    /\ intake' = [intake EXCEPT !.calls[caller] = NoCheck]
    /\ UNCHANGED <<registry, NotIntakeNorRegistry>>

\* delete_source for a source that exists: the row is deleted and committed
DeleteSource(url) ==
    /\ Contains(registry.sources, url)
    /\ registry' = [registry EXCEPT !.sources = SelectSeq(@, LAMBDA s : s /= url)]
    /\ intake' = [intake EXCEPT !.deleted = @ \cup {url}]
    /\ UNCHANGED NotIntakeNorRegistry

\* the worker runs the crawl_url task at the head of the queue:
\* services.crawl_source looks the source up
CrawlUrlTaskRuns ==
    /\ intake.queue /= <<>>
    /\ intake' = [intake EXCEPT
          !.queue = Tail(@),
          !.task = [source_url |-> Head(intake.queue),
                    error |-> IF Contains(registry.sources, Head(intake.queue))
                              THEN "none" ELSE "SourceNotFound"]]
    /\ UNCHANGED <<registry, NotIntakeNorRegistry>>

NextIntake ==
    \/ \E caller \in 1..NumCallers, url \in CheckUrls :
          Len(intake.queue) < MaxQueued /\ CheckBegin(caller, url)
    \/ \E caller \in 1..NumCallers : CheckAddSource(caller)
    \/ \E caller \in 1..NumCallers : AddSourceGet(caller)
    \/ \E caller \in 1..NumCallers : AddSourceCommit(caller)
    \/ \E caller \in 1..NumCallers : CheckAfterAddSource(caller)
    \/ \E caller \in 1..NumCallers : CheckExit(caller)
    \/ \E url \in {NewNormalizedUrl(u).value : u \in CheckUrls} : DeleteSource(url)
    \/ CrawlUrlTaskRuns

\* crawl_url_with_source_check calls that interleave at their awaits with
\* each other, with delete_source and with the crawl tasks they dispatched
SpecIntake == Init /\ [][NextIntake]_vars

(* --------------------- LiteLLMChatbot.chat_stream ----------------------- *)

max_iterations == 5

\* ChatResponse(content=..., is_complete=...)
ChatResponse(content, is_complete) == [content |-> content, is_complete |-> is_complete]

\* what the completion of one round gives: an exception, a message with
\* tool calls (the called function returning or raising), or a message
\* without tool calls
RoundReturns ==
    {[throws |-> TRUE, tool_calls |-> FALSE, function_raises |-> FALSE]} \cup
    {[throws |-> FALSE, tool_calls |-> TRUE, function_raises |-> f] : f \in BOOLEAN} \cup
    {[throws |-> FALSE, tool_calls |-> FALSE, function_raises |-> FALSE]}

NotChat ==
    <<pages, page_jobs, source_jobs, jobs, emitted, pc, crawl, gen, queued, error, view,
      dispatched, completion, complete, construction, extraction, registry, fleet,
      session, record, intake>>

\* chat_stream is called: current_messages = full_messages.copy(); iteration = 0
ChatBegin ==
    /\ chat.pc = "idle"
    /\ chat' = [NoChat EXCEPT !.pc = "loop"]
    /\ UNCHANGED NotChat

\* one pass of the while loop up to the test of tool_calls: iteration += 1
\* and response = await acompletion(...); tool calls are run and their
\* results (or "Error: ...") appended, then continue; without tool calls
\* the final completion is requested; an exception reaches the except clause
ChatRound(r) ==
    /\ chat.pc = "loop"
    /\ chat.iteration < max_iterations
    /\ chat' =
          IF r.throws
          THEN [chat EXCEPT !.iteration = @ + 1, !.pc = "done",
                            !.responses = Append(@, ChatResponse("error", TRUE))]
          ELSE IF r.tool_calls
          THEN [chat EXCEPT !.iteration = @ + 1,
                            !.function_results =
                                Append(@, IF r.function_raises THEN "Error" ELSE "result")]
          ELSE [chat EXCEPT !.iteration = @ + 1, !.pc = "final"]
    /\ UNCHANGED NotChat

\* final_response = await acompletion(stream=True, ...) returns or raises
ChatFinalCompletion(throws) ==
    /\ chat.pc = "final"
    /\ chat' =
          IF throws
          THEN [chat EXCEPT !.pc = "done",
                            !.responses = Append(@, ChatResponse("error", TRUE))]
          ELSE [chat EXCEPT !.pc = "streaming"]
    /\ UNCHANGED NotChat

\* a chunk with content arrives: yield ChatResponse(content=...)
ChatChunk ==
    /\ chat.pc = "streaming"
    /\ chat' = [chat EXCEPT !.responses = Append(@, ChatResponse("chunk", FALSE))]
    /\ UNCHANGED NotChat

\* the stream raises between two chunks
ChatStreamRaises ==
    /\ chat.pc = "streaming"
    /\ chat' = [chat EXCEPT !.pc = "done",
                            !.responses = Append(@, ChatResponse("error", TRUE))]
    /\ UNCHANGED NotChat

\* the stream ends: yield ChatResponse(is_complete=True); break
ChatStreamEnd ==
    /\ chat.pc = "streaming"
    /\ chat' = [chat EXCEPT !.pc = "after_loop",
                            !.responses = Append(@, ChatResponse("", TRUE))]
    /\ UNCHANGED NotChat

\* while iteration < max_iterations is false: the loop is left
ChatLoopEnd ==
    /\ chat.pc = "loop"
    /\ ~(chat.iteration < max_iterations)
    /\ chat' = [chat EXCEPT !.pc = "after_loop"]
    /\ UNCHANGED NotChat

\* if iteration >= max_iterations: yield ChatResponse(content="I've reached
\* the maximum number of function calls. ...", is_complete=True)
ChatAfterLoop ==
    /\ chat.pc = "after_loop"
    /\ chat' =
          IF chat.iteration >= max_iterations
          THEN [chat EXCEPT !.pc = "done",
                            !.responses = Append(@, ChatResponse("maximum", TRUE))]
          ELSE [chat EXCEPT !.pc = "done"]
    /\ UNCHANGED NotChat

\* the generator is exhausted and the caller is done with the stream
ChatExit ==
    /\ chat.pc = "done"
    /\ chat' = NoChat
    /\ UNCHANGED NotChat

NextChat ==
    \/ ChatBegin
    \/ \E r \in RoundReturns : ChatRound(r)
    \/ \E throws \in BOOLEAN : ChatFinalCompletion(throws)
    \/ Len(SelectSeq(chat.responses, LAMBDA x : ~x.is_complete)) < MaxChunks /\ ChatChunk
    \/ ChatStreamRaises
    \/ ChatStreamEnd
    \/ ChatLoopEnd
    \/ ChatAfterLoop
    \/ ChatExit

\* calls of chat_stream, one after the other
SpecChat == Init /\ [][NextChat]_vars

(* ========== properties of the jobs, emissions and review state ======== *)

\* the jobs of the pages: ScrapeJobs and ExtractJobs
PageJobs == {j \in 1..Len(jobs) : jobs[j].type \in {"scrape", "extract"}}

\* the places in the pages' job lists that hold job j
PlacesOf(j) == {<<u, i>> \in URLS \X (1..Len(jobs)) : i <= Len(page_jobs[u]) /\ page_jobs[u][i] = j}

\* the kinds of outcome job j was emitted with, in order of emission
EmissionsOf(j) ==
    LET es == SelectSeq(emitted, LAMBDA e : e.job = j) IN [i \in 1..Len(es) |-> es[i].kind]

\* the jobs of the source's pages whose outcome is an ExtractJobResult
ExtractResultJobs ==
    {j \in 1..Len(jobs) :
        /\ \E u \in SeqToSet(pages) : Contains(page_jobs[u], j)
        /\ jobs[j].outcome.kind = "extract"}

Approved(j) == jobs[j].outcome.review_status = "Approved"

\* the pages of the source that own an extract job, whatever its outcome
PagesWithExtractJob ==
    {u \in SeqToSet(pages) : \E j \in SeqToSet(page_jobs[u]) : jobs[j].type = "extract"}

\* the pages of the source that own an extract job with an ExtractJobResult
PagesWithExtractResult ==
    {u \in SeqToSet(pages) : \E j \in SeqToSet(page_jobs[u]) : j \in ExtractResultJobs}

OwnsApprovedResult(u) ==
    \E j \in SeqToSet(page_jobs[u]) : j \in ExtractResultJobs /\ Approved(j)

\* C1: in every step of every operation (scrape, extract, summarize, crawl,
\* approve, edit of a summary, read models, markdown filtering) no job is
\* removed, a new job starts with no outcome, an outcome is absent, a JobError
\* or the result of the job's own type, and an outcome that is present keeps
\* its kind: it is never replaced by another kind and never reset to absent.
C1_OutcomeSetOnce ==
    [][/\ Len(jobs') >= Len(jobs)
       /\ \A j \in 1..Len(jobs') :
            /\ jobs'[j].outcome.kind \in {"none", "error", jobs'[j].type}
            /\ j > Len(jobs) => jobs'[j].outcome.kind = "none"
            /\ j <= Len(jobs) =>
                 /\ jobs'[j].type = jobs[j].type
                 /\ jobs[j].outcome.kind /= "none" =>
                      jobs'[j].outcome.kind = jobs[j].outcome.kind]_vars

\* a ScrapeJobResult whose markdown was filtered, next to an ExtractJobResult
\* that was approved and whose summary was edited
C1_Witness ==
    /\ \E j \in 1..Len(jobs) :
          jobs[j].outcome.kind = "scrape" /\ jobs[j].outcome.markdown = ""
    /\ \E j \in 1..Len(jobs) :
          /\ jobs[j].outcome.kind = "extract"
          /\ Approved(j)
          /\ jobs[j].outcome.summary = <<"a">>

\* C8: every ScrapeJob and ExtractJob is in the job list of exactly one page,
\* exactly once; it is emitted first with no outcome and, when the collaborator
\* has returned or thrown, a second and last time with its terminal outcome (a
\* JobError if the collaborator threw); when the generator is suspended after
\* the second emission no exception has reached the caller.
C8_TwoEmissions ==
    /\ \A j \in PageJobs :
          /\ Cardinality(PlacesOf(j)) = 1
          /\ ~Contains(source_jobs, j)
          /\ EmissionsOf(j) \in {<<"none">>, <<"none", "error">>, <<"none", jobs[j].type>>}
          /\ Len(EmissionsOf(j)) = 2 <=> jobs[j].outcome.kind /= "none"
          /\ Len(EmissionsOf(j)) = 2 => EmissionsOf(j)[2] = jobs[j].outcome.kind
    /\ (pc \in {"scrape_terminal", "extract_terminal", "service_terminal"}
        /\ gen.job \in PageJobs) =>
          /\ Len(EmissionsOf(gen.job)) = 2
          /\ error = "none"
    /\ (pc \in {"scrape_pending", "extract_pending", "service_scrape_pending",
                "service_extract_pending"}) =>
          /\ gen.job = Len(jobs)
          /\ EmissionsOf(gen.job) = <<"none">>

\* a page owns a job whose collaborator returned and a job whose collaborator
\* threw, both emitted twice, and the second call has just ended
C8_Witness ==
    /\ pc = "extract_terminal"
    /\ \E u \in URLS : \E j, k \in SeqToSet(page_jobs[u]) :
          /\ EmissionsOf(j) = <<"none", "scrape">>
          /\ EmissionsOf(k) = <<"none", "error">>
          /\ gen.job = k

\* C9: all_extract_jobs_approved() is true exactly when the source's pages
\* hold at least one job with an ExtractJobResult and every such result is
\* Approved; it is false for a source without pages; pending jobs, failed
\* jobs and scrape jobs do not enter the result.
C9_AllApprovedIff ==
    /\ AllExtractJobsApproved <=>
          (ExtractResultJobs /= {} /\ \A j \in ExtractResultJobs : Approved(j))
    /\ pages = <<>> => ~AllExtractJobsApproved

\* true although the pages also hold a failed job and a ScrapeJobResult
C9_Witness ==
    /\ AllExtractJobsApproved
    /\ \E j \in PageJobs : jobs[j].outcome.kind = "error"
    /\ \E j \in PageJobs : jobs[j].outcome.kind = "scrape"

\* C10 as stated: when all_extract_jobs_approved() is true, every page that
\* owns an extract job owns an Approved ExtractJobResult.
C10_EveryPageWithExtractJob ==
    AllExtractJobsApproved => \A u \in PagesWithExtractJob : OwnsApprovedResult(u)

\* C10: when all_extract_jobs_approved() is true, every page that owns an
\* extract job whose outcome is an ExtractJobResult owns an Approved
\* ExtractJobResult (a page whose extract jobs all failed or are pending is
\* not looked at).
C10_EveryPageWithExtractResult ==
    AllExtractJobsApproved => \A u \in PagesWithExtractResult : OwnsApprovedResult(u)

\* true with two pages that each own an Approved ExtractJobResult
C10_Witness ==
    /\ AllExtractJobsApproved
    /\ Cardinality(PagesWithExtractResult) = 2

(* =================== properties of approve and edit =================== *)

\* job j is approved by this step: its ExtractJobResult goes from Unreviewed
\* to Approved
ApprovesExtract(j) ==
    /\ j \in 1..Len(jobs)
    /\ jobs[j].outcome.kind = "extract"
    /\ jobs[j].outcome.review_status = "Unreviewed"
    /\ jobs'[j].outcome.kind = "extract"
    /\ jobs'[j].outcome.review_status = "Approved"

\* C11: a step that approves an ExtractJobResult hands exactly one
\* auto_summarize_source task to the task queue when all_extract_jobs_approved()
\* holds after it, and hands over nothing when an ExtractJobResult of the
\* source is still Unreviewed.
C11_ApproveSchedulesSummarize ==
    [][\A j \in 1..Len(jobs) : ApprovesExtract(j) =>
          /\ AllExtractJobsApproved' => dispatched' = Append(dispatched, AutoSummarizeTask)
          /\ ~AllExtractJobsApproved' => dispatched' = dispatched]_vars

\* the stored graph and the task queue are as before the step
GraphUnchanged ==
    UNCHANGED <<pages, page_jobs, source_jobs, jobs, emitted, dispatched>>

\* C12: approve of a job whose outcome is absent, a JobError, a ScrapeJobResult
\* or a CrawlJobResult raises InvalidJobType, approve of an unknown job id
\* raises JobNotFound, and in both cases no page, job, outcome or
\* review_status changes and nothing is handed to the task queue.
C12_ApproveRejects ==
    [][\A job_id \in 1..(Len(jobs) + 1) : ApproveJob(job_id) =>
          /\ job_id \notin 1..Len(jobs) =>
                (error' = "JobNotFound" /\ pc' = "raised" /\ GraphUnchanged)
          /\ (/\ job_id \in 1..Len(jobs)
              /\ jobs[job_id].outcome.kind \in {"none", "error", "scrape", "crawl"}) =>
                (error' = "InvalidJobType" /\ pc' = "raised" /\ GraphUnchanged)]_vars

\* approve was refused for its type in a graph that holds a pending job, a
\* CrawlJobResult and a ScrapeJobResult or JobError, and nothing else
C12_Witness ==
    /\ error = "InvalidJobType"
    /\ \A j \in 1..Len(jobs) : ~Reviewable(jobs[j].outcome)
    /\ \E j \in 1..Len(jobs) : jobs[j].outcome.kind = "none"
    /\ \E j \in 1..Len(jobs) : jobs[j].outcome.kind = "crawl"
    /\ \E j \in 1..Len(jobs) : jobs[j].outcome.kind \in {"scrape", "error"}

\* the text is empty or holds only whitespace
IsBlank(text) == \A i \in 1..Len(text) : text[i] = " "

\* the text without the whitespace before its first and after its last
\* character that is not whitespace
Trimmed(text) ==
    LET inked == {i \in 1..Len(text) : text[i] /= " "} IN
    IF inked = {} THEN <<>>
    ELSE SubSeq(text, CHOOSE i \in inked : \A k \in inked : i <= k,
                      CHOOSE i \in inked : \A k \in inked : k <= i)

\* C13: edit_summary with a text that is empty or only whitespace raises
\* InvalidSummaryValue for every job id, known or unknown, and whatever the
\* outcome of the job, and changes no job and nothing else of the graph.
C13_BlankSummaryRejected ==
    [][\A job_id \in 1..(Len(jobs) + 1), summary \in Texts :
          (EditJobOutcomeSummary(job_id, summary) /\ IsBlank(summary)) =>
              (error' = "InvalidSummaryValue" /\ pc' = "raised" /\ GraphUnchanged)]_vars

\* a blank text was refused in a graph that holds an ExtractJobResult, a
\* JobError and a pending job
C13_Witness ==
    /\ error = "InvalidSummaryValue"
    /\ \E j \in 1..Len(jobs) : jobs[j].outcome.kind = "extract"
    /\ \E j \in 1..Len(jobs) : jobs[j].outcome.kind = "error"
    /\ \E j \in 1..Len(jobs) : jobs[j].outcome.kind = "none"

\* C14: edit_summary with a text that is not blank, on a job whose outcome is
\* an ExtractJobResult or a SummarizeJobResult, sets outcome.summary to the
\* trimmed text and changes nothing else: the kind, the review_status and the
\* other fields of the outcome, every other job, the pages and the task queue
\* are as before; on a job with any other outcome it raises InvalidJobType and
\* changes nothing.
C14_EditSetsTrimmedSummary ==
    [][\A job_id \in 1..Len(jobs), summary \in Texts :
          (EditJobOutcomeSummary(job_id, summary) /\ ~IsBlank(summary)) =>
              IF jobs[job_id].outcome.kind \in {"extract", "summarize"}
              THEN /\ jobs' = [jobs EXCEPT ![job_id].outcome.summary = Trimmed(summary)]
                   /\ jobs'[job_id].outcome.kind = jobs[job_id].outcome.kind
                   /\ jobs'[job_id].outcome.review_status =
                         jobs[job_id].outcome.review_status
                   /\ error' = "none"
                   /\ UNCHANGED <<pages, page_jobs, source_jobs, emitted, dispatched>>
              ELSE error' = "InvalidJobType" /\ pc' = "raised" /\ GraphUnchanged]_vars

\* an Approved ExtractJobResult carries the trimmed text next to a
\* SummarizeJobResult that still carries the summary of the analyzer
C14_Witness ==
    /\ error = "none"
    /\ \E j \in 1..Len(jobs) :
          /\ jobs[j].outcome.kind = "extract"
          /\ jobs[j].outcome.summary = <<"a">>
          /\ jobs[j].outcome.review_status = "Approved"
    /\ \E j \in 1..Len(jobs) :
          /\ jobs[j].outcome.kind = "summarize"
          /\ jobs[j].outcome.summary = LlmSummary


(* ==================== properties of the read models ================== *)

\* what each read model returns in the current state
UnreviewedSources ==
    PrunedSources(SelectedUnreviewed, {j \in 1..Len(jobs) : IsUnreviewed(j)})

FailedSources == PrunedSources(SelectedFailed, {j \in 1..Len(jobs) : IsFailed(j)})

CrawledSources == SourcesWithoutPages(SelectedCrawled)

InProgressSources == SourcesWithoutPages(SelectedInProgress)

\* the source owns job j: j is in Source.jobs or in the jobs of one of its pages
Owns(j) == j \in ListedJobs

\* C15: the discovered read model never returns a source that owns a job,
\* source-level or page-level, whatever the job's outcome; so a source that
\* discovered returns is returned by none of unreviewed, failed, crawled and
\* in_progress.
C15_DiscoveredOwnsNoJob ==
    [][(GetDiscoveredSources /\ view' /= <<>>) =>
          /\ \A j \in 1..Len(jobs) : ~Owns(j)
          /\ UnreviewedSources = <<>>
          /\ FailedSources = <<>>
          /\ CrawledSources = <<>>
          /\ InProgressSources = <<>>]_vars

\* C16: the failed read model returns exactly the sources that own a job
\* whose outcome is JobError, source-level or owned by one of the source's
\* pages; a source whose only failed job is page-level is returned.
C16_FailedExactly ==
    [][GetFailedJobs =>
          (view' /= <<>> <=> \E j \in 1..Len(jobs) : Owns(j) /\ IsFailed(j))]_vars

\* C17: the unreviewed read model returns pruned entities: every job in the
\* result is Unreviewed, every returned page has such a job, every returned
\* source has such a job at source or page level, and every Unreviewed
\* extract or summarize result of the graph is in the result.
C17_UnreviewedPruned ==
    [][GetUnreviewedJobs =>
          /\ \A s \in 1..Len(view') :
                /\ \A j \in JobsOfReturned(view'[s]) : IsUnreviewed(j)
                /\ \A i \in 1..Len(view'[s].pages) : view'[s].pages[i].jobs /= <<>>
                /\ JobsOfReturned(view'[s]) /= {}
          /\ \A j \in 1..Len(jobs) :
                (Owns(j) /\ IsUnreviewed(j)) =>
                    \E s \in 1..Len(view') : j \in JobsOfReturned(view'[s])]_vars

\* C18: in every state, also while a job of the source is between its
\* pending and its terminal emission, the in_progress read model returns the
\* source if and only if it owns a job, source-level or page-level, that has
\* no outcome; a source whose jobs are all terminal is not returned.
C18_InProgressIffPending ==
    InProgressSources /= <<>> <=>
        \E j \in 1..Len(jobs) : Owns(j) /\ jobs[j].outcome = NoOutcome

\* a read model, or the filter applied to the sources a read model returned
ReadModelStep ==
    \/ GetUnreviewedJobs
    \/ GetFailedJobs
    \/ GetCrawledSources
    \/ GetDiscoveredSources
    \/ GetInProgressSources
    \/ FilterMarkdownFromReturnedSources

\* C19: the read models and the pruning of their results leave the graph
\* unchanged: the source's pages and jobs lists, every page's jobs list and
\* every job's outcome are after the call what they were before it.
C19_ReadModelsLeaveGraph ==
    [][ReadModelStep => UNCHANGED <<pages, page_jobs, source_jobs, jobs>>]_vars

\* an unreviewed result holding a source job and a page was filtered while a
\* page of the source owns a ScrapeJobResult with its markdown
C19_Witness ==
    /\ pc = "filtered"
    /\ Len(view) = 1
    /\ view[1].jobs /= <<>>
    /\ view[1].pages /= <<>>
    /\ \E j \in 1..Len(jobs) :
          Owns(j) /\ jobs[j].outcome.kind = "scrape" /\ jobs[j].outcome.markdown /= ""

(* ============ properties of the structured completion =============== *)

\* the attempts of the running call that failed
FailedCalls == {i \in 1..Len(completion.calls) : completion.calls[i].throws}

\* every attempt the call can make has been made and has failed
Exhausted == Cardinality(FailedCalls) = 3

\* C20: one structured-completion call invokes the model at most 3 times;
\* it returns the first successful response with no further attempt, waits
\* the fixed backoff after each failed attempt except the last, and when all
\* 3 attempts fail the caller gets the error of the third attempt.
C20_RetryThreeAttempts ==
    LET calls == completion.calls
        n == Len(calls)
    IN /\ n <= 3
       /\ \A i \in 1..(n - 1) : calls[i].throws
       /\ (n > 0 /\ ~calls[n].throws) =>
             (completion.pc = "returned" /\ completion.response = calls[n].response)
       /\ completion.pc = "returned" => (n > 0 /\ ~calls[n].throws)
       /\ Len(completion.slept) = Cardinality(FailedCalls) - (IF Exhausted THEN 1 ELSE 0)
       /\ \A i \in 1..Len(completion.slept) : completion.slept[i] = 120
       /\ Exhausted => (completion.pc = "raised" /\ completion.raised = calls[3].error)
       /\ completion.pc = "raised" => Exhausted

\* three attempts failed with three different errors and the third is raised
C20_Witness ==
    /\ completion.pc = "raised"
    /\ Len(completion.calls) = 3
    /\ completion.calls[1].error /= completion.calls[3].error
    /\ completion.calls[2].error /= completion.calls[3].error
    /\ completion.raised = completion.calls[3].error
    /\ completion.slept = <<120, 120>>

\* the decoded content is an object wrapped under a single top-level key
SingleKeyWrapped == complete.content.object /\ complete.content.keys = 1

\* C21: complete validates the response; only when that fails and the
\* content is wrapped under a single top-level key does it unwrap the key
\* and validate once more; when the second validation fails, or the content
\* is not so wrapped, the validation failure propagates; the model is not
\* called again.
C21_UnwrapOnce ==
    /\ complete.conversions <= 2
    /\ complete.conversions = 2 => (~complete.content.valid /\ SingleKeyWrapped)
    /\ complete.result = "first value" => SingleKeyWrapped
    /\ complete.pc = "raised" => complete.raised = "ValidationError"
    /\ (complete.pc \in {"returned", "raised"} /\ ~complete.content.valid
          /\ ~SingleKeyWrapped) =>
            (complete.pc = "raised" /\ complete.raised = "ValidationError")
    /\ complete.pc /= "idle" => completion.pc = "returned"

(* ======================= properties of NormalizedUrl ================= *)

\* url was accepted: the constructor returned a value
Accepted == construction.pc = "constructed" /\ construction.new.raised = "none"

\* C22: for every string s that NormalizedUrl accepts, constructing from s
\* followed by "/" gives the value constructed from s, and constructing from
\* that value gives the value again.
C22_TrailingSlashIdempotent ==
    Accepted =>
        /\ NewNormalizedUrl(Append(construction.url, "/")) = construction.new
        /\ NewNormalizedUrl(construction.new.value) = construction.new

\* an accepted string that ends with slashes, which are stripped
C22_Witness ==
    /\ Accepted
    /\ Len(construction.url) = Len(construction.new.value) + 2
    /\ Len(construction.new.value) > 4

\* the positions at which "://" occurs in text
Separators(text) ==
    {i \in 1..(Len(text) - 2) : text[i] = ":" /\ text[i + 1] = "/" /\ text[i + 2] = "/"}

\* the part of text left when its trailing "/" are dropped
WithoutTrailingSlashes(text) ==
    LET last == {i \in 1..Len(text) : text[i] /= "/"}
    IN IF last = {} THEN <<>>
       ELSE SubSeq(text, 1, CHOOSE i \in last : \A k \in last : k <= i)

\* text is non-empty, begins with https:// and has exactly one "://" once
\* its trailing slashes are dropped
WellFormed(text) ==
    /\ text /= <<>>
    /\ Len(text) >= 4
    /\ text[1] = "https" /\ text[2] = ":" /\ text[3] = "/" /\ text[4] = "/"
    /\ Cardinality(Separators(WithoutTrailingSlashes(text))) = 1

\* C23: every value the construction returns is non-empty, starts with
\* https://, contains exactly one "://" and does not end with "/"; every
\* other input fails with InvalidUrl, and try_new returns the absent value
\* for exactly those inputs and never raises.
C23_NormalizedUrlInvariants ==
    construction.pc = "constructed" =>
        LET url == construction.url
            new == construction.new
            try_new == construction.try_new
        IN /\ new.raised = "none" =>
                 /\ new.value /= <<>>
                 /\ Len(new.value) >= 4
                 /\ new.value[1] = "https" /\ new.value[2] = ":"
                 /\ new.value[3] = "/" /\ new.value[4] = "/"
                 /\ Cardinality(Separators(new.value)) = 1
                 /\ new.value[Len(new.value)] /= "/"
           /\ new.raised = "none" <=> WellFormed(url)
           /\ ~WellFormed(url) => new.raised = "InvalidUrl"
           /\ try_new.raised = "none"
           /\ try_new.value = None <=> ~WellFormed(url)
           /\ WellFormed(url) => try_new.value = new.value

\* a string with two "://" is refused: InvalidUrl raised, try_new absent
C23_Witness ==
    /\ construction.pc = "constructed"
    /\ Cardinality(Separators(construction.url)) = 2
    /\ construction.url[Len(construction.url)] = "a"
    /\ construction.new.raised = "InvalidUrl"
    /\ construction.try_new.value = None

(* ===================== properties of the link classifier ============= *)

\* the absolute url the i-th href stands for
Resolved(i) ==
    LET match == extraction.matches[i] IN
    IF IsAbsolute(match) THEN match ELSE UrlJoin(base_url, match)

\* the i-th href is neither a fragment nor excluded
Considered(i) ==
    /\ extraction.matches[i][1] /= "#"
    /\ ~IsExcludedUrl(extraction.matches[i])

\* the i-th href survives: it is considered, no earlier considered href
\* stands for the same url string, and the url is a valid NormalizedUrl
Survivors ==
    {i \in 1..Len(extraction.matches) :
        /\ Considered(i)
        /\ \A k \in 1..(i - 1) : Considered(k) => Resolved(k) /= Resolved(i)
        /\ NewNormalizedUrl(Resolved(i)).raised = "none"}

\* the collection the claim assigns to a url: file when its path ends in a
\* file extension, whatever its domain; else internal on the page's domain;
\* else external
CollectionOf(url) ==
    IF Len(url) > 5 /\ url[Len(url)] \in {".pdf", ".PDF"} THEN "file"
    ELSE IF url[5] = base_url[5] THEN "internal"
    ELSE "external"

\* the values of the first k hrefs that survive and belong to collection
RECURSIVE ValuesOf(_, _)
ValuesOf(k, collection) ==
    IF k = 0 THEN <<>>
    ELSE ValuesOf(k - 1, collection) \o
         (IF k \in Survivors /\ CollectionOf(Resolved(k)) = collection
          THEN <<NewNormalizedUrl(Resolved(k)).value>> ELSE <<>>)

\* C24: the link classifier puts every surviving link in exactly one of the
\* three collections, the file-extension check first: a link whose path
\* ends in a file extension is in file_links, never in internal_links or
\* external_links, also when its domain is the page's.
C24_FileCheckFirst ==
    extraction.pc = "returned" =>
        LET n == Len(extraction.matches) IN
        /\ extraction.file_links = ValuesOf(n, "file")
        /\ extraction.internal_links = ValuesOf(n, "internal")
        /\ extraction.external_links = ValuesOf(n, "external")
        /\ Len(extraction.file_links) + Len(extraction.internal_links)
              + Len(extraction.external_links) = Cardinality(Survivors)

\* report.pdf relative to the page is a file link, next to an internal and
\* an external link
C24_Witness ==
    /\ extraction.pc = "returned"
    /\ \E i \in 1..Len(extraction.matches) : extraction.matches[i] = <<"r", ".pdf">>
    /\ extraction.file_links = <<<<"https", ":", "/", "/", "a", "/", "r", ".pdf">>>>
    /\ Len(extraction.internal_links) = 1
    /\ Len(extraction.external_links) = 1

\* no value occurs twice in list
Deduplicated(list) ==
    \A i, k \in 1..Len(list) : i /= k => list[i] /= list[k]

\* C25: each of the three collections is deduplicated, no NormalizedUrl
\* occurs twice in it, also when hrefs resolve to one url in different
\* spellings (relative and absolute, with and without trailing slash); a
\* link that fails NormalizedUrl validation is dropped and nothing is raised.
C25_CollectionsDeduplicated ==
    extraction.pc = "returned" =>
        /\ Deduplicated(extraction.internal_links)
        /\ Deduplicated(extraction.external_links)
        /\ Deduplicated(extraction.file_links)

(* ======================= properties of add_source ==================== *)

\* C26: in every state there is at most one Source per normalized url, also
\* when two registrations of one url interleave between the existence check
\* and the commit; add_source for a url that exists, in any spelling that
\* normalizes to it, fails with SourceAlreadyExists and leaves the store
\* unchanged.
C26_OneSourcePerUrl ==
    /\ [](\A i, k \in 1..Len(registry.sources) :
            i /= k => registry.sources[i] /= registry.sources[k])
    /\ [][\A caller \in 1..NumCallers :
            (AddSourceGet(caller)
               /\ Contains(registry.sources, registry.calls[caller].normalized_url)) =>
                 /\ registry'.calls[caller].error = "SourceAlreadyExists"
                 /\ registry'.calls[caller].pc = "raised"
                 /\ registry'.sources = registry.sources]_vars

\* two calls for one url passed the existence check together: one inserted
\* the row and the other's commit was refused
C26_Witness ==
    /\ registry.sources = <<<<"https", ":", "/", "/", "a">>>>
    /\ registry.calls[1].pc = "returned"
    /\ registry.calls[2].pc = "raised"
    /\ registry.calls[2].error = "IntegrityError"
    /\ registry.calls[1].url /= registry.calls[2].url

(* ================ properties of crawls of several sources ============ *)

EarlierJobsKept(except) ==
    /\ Len(jobs') >= Len(jobs)
    /\ \A j \in 1..Len(jobs) : j \notin except => jobs'[j] = jobs[j]

\* C28: every run of summarize_source appends exactly one new SummarizeJob
\* to Source.jobs and leaves every job that existed before, its outcome
\* and review_status, and every page unchanged; the run sets the outcome of
\* its own job only, so n runs leave n SummarizeJobs.
C28_SummarizeAppendsOneJob ==
    [][/\ ServiceSummarizeBegin =>
             /\ Len(jobs') = Len(jobs) + 1
             /\ jobs'[Len(jobs')] = NewJob("summarize")
             /\ source_jobs' = Append(source_jobs, Len(jobs'))
             /\ gen'.job = Len(jobs')
             /\ EarlierJobsKept({})
             /\ UNCHANGED <<pages, page_jobs>>
       /\ \A r \in SummarizeReturns : ServiceSummarizeEnd(r) =>
             /\ Len(jobs') = Len(jobs)
             /\ jobs[gen.job].outcome = NoOutcome
             /\ jobs'[gen.job].type = "summarize"
             /\ jobs'[gen.job].outcome.kind \in {"summarize", "error"}
             /\ EarlierJobsKept({gen.job})
             /\ UNCHANGED <<pages, page_jobs, source_jobs>>]_vars

\* a second run has ended next to the approved result of the first
C28_Witness ==
    /\ pc = "service_terminal"
    /\ Len(source_jobs) = 2
    /\ jobs[source_jobs[1]].outcome.kind = "summarize"
    /\ jobs[source_jobs[1]].outcome.review_status = "Approved"
    /\ jobs[source_jobs[2]].outcome.kind = "summarize"
    /\ jobs[source_jobs[2]].outcome.review_status = "Unreviewed"
    /\ gen.job = source_jobs[2]

(* ============== the order of the jobs of one crawl (Spec) ============== *)

\* the ScrapeJobs and ExtractJobs the running crawl has appended
PageJobsOfCrawl ==
    {j \in 1..Len(jobs) : j > crawl.crawl_job /\ jobs[j].type \in {"scrape", "extract"}}

PendingPageJobsOfCrawl == {j \in PageJobsOfCrawl : jobs[j].outcome = NoOutcome}

\* the positions in emitted of the pending and of the terminal emission of
\* the CrawlJob
CrawlJobEmissions(pending) ==
    {i \in 1..Len(emitted) :
        /\ emitted[i].job = crawl.crawl_job
        /\ (emitted[i].kind = "none") = pending}

\* every emission of a page-level job lies after the pending emission of
\* the CrawlJob and before its terminal emission
EmittedInsideCrawl ==
    \A i \in 1..Len(emitted) :
        emitted[i].job \in PageJobsOfCrawl =>
            /\ \E k \in CrawlJobEmissions(TRUE) : k < i
            /\ \A k \in CrawlJobEmissions(FALSE) : i < k

\* the step appends a job of the given type to a page of the crawl
AppendsPageJob(type) ==
    /\ Len(jobs') = Len(jobs) + 1
    /\ jobs'[Len(jobs')].type = type
    /\ \E u \in URLS : page_jobs'[u] = Append(page_jobs[u], Len(jobs'))

\* the page the step appends a job to
AppendedTo == CHOOSE u \in URLS : page_jobs'[u] /= page_jobs[u]

\* the ScrapeJobs the running crawl appended to page u
ScrapeJobsOn(u) ==
    {j \in PageJobsOfCrawl : jobs[j].type = "scrape" /\ Contains(page_jobs[u], j)}

\* C29: within one crawl the traversal is strictly sequential: at every
\* moment at most one page-level job of the crawl is pending; an ExtractJob
\* is appended to a page only when the ScrapeJob the crawl ran on that page is
\* terminal; a ScrapeJob is appended only when every page-level job the
\* crawl appended before is terminal; and no page-level job is emitted before
\* the pending emission of the CrawlJob or after its terminal emission.
C29_StrictlySequential ==
    /\ [](/\ Cardinality(PendingPageJobsOfCrawl) <= 1
          /\ EmittedInsideCrawl)
    /\ [][/\ AppendsPageJob("extract") =>
                /\ ScrapeJobsOn(AppendedTo) /= {}
                /\ \A j \in ScrapeJobsOn(AppendedTo) : jobs[j].outcome /= NoOutcome
          /\ AppendsPageJob("scrape") =>
                /\ PendingPageJobsOfCrawl = {}
                /\ \A j \in PageJobsOfCrawl : j < Len(jobs')
          /\ emitted' /= emitted =>
                /\ Len(emitted') = Len(emitted) + 1
                /\ CrawlJobEmissions(TRUE) /= {} \/ emitted'[Len(emitted')].job = crawl'.crawl_job
                /\ CrawlJobEmissions(FALSE) = {}]_vars

\* a crawl has returned after two pages, each scraped and then extracted
C29_Witness ==
    /\ pc = "done"
    /\ Len(JobsOfCrawl("scrape")) = 2
    /\ Len(JobsOfCrawl("extract")) = 2
    /\ \A j \in PageJobsOfCrawl : jobs[j].outcome.kind \in {"scrape", "extract"}
    /\ CrawlJobEmissions(FALSE) = {Len(emitted)}

\* the ExtractJobs the running crawl appended to page u
ExtractJobsOn(u) ==
    {j \in PageJobsOfCrawl : jobs[j].type = "extract" /\ Contains(page_jobs[u], j)}

\* the crawl is resumed after the terminal emission of a ScrapeJob
ResumedAfterScrape == pc = "scrape_terminal" /\ pc' \in CrawlYields \ {"scrape_terminal"}

\* C30: in a crawl an ExtractJob is appended for a page if and only if the
\* ScrapeJob this crawl ran on that page ended with a ScrapeJobResult: every
\* ExtractJob of the crawl follows a ScrapeJobResult on its page, the step
\* that resumes the crawl after a terminal ScrapeJob appends the ExtractJob
\* exactly when the outcome is a ScrapeJobResult, and in a crawl that has
\* ended the pages with an ExtractJob are the pages with a ScrapeJobResult. A
\* page whose scrape ended in JobError gets no ExtractJob and adds no url to
\* the queue.
C30_ExtractIffScrapeResult ==
    /\ [](/\ \A e \in PageJobsOfCrawl : jobs[e].type = "extract" =>
                \E s \in ScrapeJobsOn(PageOf(e)) :
                    s < e /\ jobs[s].outcome.kind = "scrape"
          /\ \A s \in PageJobsOfCrawl :
                jobs[s].type = "scrape" /\ jobs[s].outcome.kind = "error" =>
                    ExtractJobsOn(PageOf(s)) = {}
          /\ pc \in {"crawl_terminal", "done"} =>
                \A u \in URLS :
                    ExtractJobsOn(u) /= {} <=>
                        \E s \in ScrapeJobsOn(u) : jobs[s].outcome.kind = "scrape")
    /\ [][ResumedAfterScrape =>
             /\ (AppendsPageJob("extract") /\ AppendedTo = PageOf(gen.job))
                    <=> jobs[gen.job].outcome.kind = "scrape"
             /\ jobs[gen.job].outcome.kind = "error" =>
                    /\ Len(jobs') = Len(jobs)
                    /\ queued' = queued
                    /\ crawl'.url_queue = <<>>]_vars

\* a crawl has returned after a page that was scraped and extracted and a
\* page whose scrape failed
C30_Witness ==
    /\ pc = "done"
    /\ Len(JobsOfCrawl("scrape")) = 2
    /\ Len(JobsOfCrawl("extract")) = 1
    /\ jobs[JobsOfCrawl("scrape")[1]].outcome.kind = "scrape"
    /\ jobs[JobsOfCrawl("scrape")[2]].outcome.kind = "error"
    /\ ExtractJobsOn(PageOf(JobsOfCrawl("scrape")[2])) = {}
    /\ Len(queued) = 2

(* ===================== termination of a crawl (SpecLive) =============== *)

\* C31: every started crawl terminates, provided each collaborator call
\* returns or throws: the loop runs at most max_pages iterations and the
\* CrawlJob eventually gets a terminal outcome (a CrawlJobResult or a
\* JobError); no CrawlJob stays pending forever.
C31_CrawlTerminates ==
    /\ [](crawl.pages_crawled <= crawl.max_pages)
    /\ CrawlStarted ~> (CrawlStarted /\ CrawlOutcome.kind \in {"crawl", "error"})

(* ============== commits of the service layer (SpecSession) ============= *)

\* the positions of the emissions whose commit has returned
Committed == {i \in 1..Len(session.emissions) : session.emissions[i].committed}

\* the graph in memory at the most recent emission whose commit has returned
LastCommitted ==
    IF Committed = {} THEN <<>>
    ELSE session.emissions[CHOOSE i \in Committed : \A k \in Committed : k <= i].state

\* the graph in memory at the most recent emission
LastEmitted ==
    IF session.emissions = <<>> THEN <<>>
    ELSE session.emissions[Len(session.emissions)].state

\* the database is written by the commit that follows an emission and by
\* nothing else, each emission is followed by at most one commit, and the
\* exit of the unit of work leaves in memory what the database holds
CommitDiscipline ==
    [][/\ session'.durable /= session.durable =>
             /\ session.pc = "yielded"
             /\ session'.durable = LastEmitted
       /\ SessionCommit => Len(session'.emissions) = Len(session.emissions)
       /\ SessionExit =>
             /\ session'.memory = session.durable
             /\ session'.durable = session.durable]_vars

\* C32 as stated: the service layer commits once after every job emission
\* and at no other point, so the database at any moment, also after a
\* crash at an arbitrary point, equals the graph in memory at the most
\* recent emission; changes after the last commit are rolled back at the
\* exit of the unit of work.
C32_DurableIsLastEmission ==
    /\ [](session.durable = LastEmitted)
    /\ CommitDiscipline

\* C32 amended: the service layer commits once after every job emission
\* and at no other point, so the database at any moment, also after a
\* crash at an arbitrary point, equals the graph in memory at the most
\* recent emission whose commit has returned: between an emission and the
\* return of its commit, and after a commit that raised, it is the state at
\* the emission before; changes after the last commit are rolled back at the
\* exit of the unit of work.
C32_DurableIsLastCommittedEmission ==
    /\ [](/\ session.durable = LastCommitted
          /\ session.pc \in {"resumed", "returned"} => session.durable = session.memory)
    /\ CommitDiscipline

\* the worker died between the terminal emission of a job and the return
\* of its commit: the database holds the job as it was at its pending emission
C32_Witness ==
    /\ session.pc = "crashed"
    /\ Len(session.emissions) = 2
    /\ Committed = {1}
    /\ session.durable = session.emissions[1].state
    /\ session.durable /= LastEmitted
    /\ LastEmitted[1].terminal

(* ================= the pages of a source (SpecOps) ===================== *)

\* a step of a crawl that appends a ScrapeJob to the page with url u
VisitsPage(u) ==
    /\ pc \in CrawlYields
    /\ Len(jobs') = Len(jobs) + 1
    /\ jobs'[Len(jobs')].type = "scrape"
    /\ page_jobs'[u] /= page_jobs[u]

\* C33: after any sequence of crawls and add_page_to_source calls no two
\* Pages of the source have the same url: a crawl that reaches a url for
\* which the source has a Page reuses that Page and appends the new job to
\* it, and add_page_to_source for the url of an existing Page fails with
\* PageAlreadyExists and changes nothing in the source.
C33_PagesUniqueByUrl ==
    /\ [](NoDuplicates(pages))
    /\ [][/\ \A u \in URLS : VisitsPage(u) /\ Contains(pages, u) =>
                /\ pages' = pages
                /\ page_jobs'[u] = Append(page_jobs[u], Len(jobs'))
          /\ \A u \in URLS : VisitsPage(u) /\ ~Contains(pages, u) =>
                /\ pages' = Append(pages, u)
                /\ page_jobs'[u] = <<Len(jobs')>>
          /\ \A u \in OpsUrls : AddPageToSource(u) /\ Contains(pages, u) =>
                /\ error' = "PageAlreadyExists"
                /\ pc' = "raised"
                /\ UNCHANGED <<pages, page_jobs, source_jobs, jobs>>]_vars

\* add_page_to_source has failed for the url of the page a crawl created and
\* a later call scraped again
C33_Witness ==
    /\ pc = "raised"
    /\ error = "PageAlreadyExists"
    /\ pages = <<SourceUrl>>
    /\ Len(page_jobs[SourceUrl]) >= 2
    /\ source_jobs /= <<>>

(* ================ the stored outcome of a Job (SpecRecord) ============= *)

SubRecords ==
    {"_error", "_scrape_result", "_extract_result", "_summarize_result", "_crawl_result"}

\* the sub-records of a row that are not None
Populated(row) == {f \in SubRecords : row[f] /= NoOutcome}

\* the sub-record that holds values of the given kind
SubRecordOf(kind) ==
    CASE kind = "error" -> "_error"
      [] kind = "scrape" -> "_scrape_result"
      [] kind = "extract" -> "_extract_result"
      [] kind = "summarize" -> "_summarize_result"
      [] kind = "crawl" -> "_crawl_result"
      [] OTHER -> "none"

\* C34: the stored outcome of a Job has at most one of its five sub-records
\* populated in every reachable state: assigning an outcome clears all five
\* and then sets only the one matching the kind of the assigned value, and
\* reading the outcome returns that one, or None when none is populated.
C34_OneSubRecord ==
    /\ [](/\ \A job \in 1..NumRecords : Cardinality(Populated(record.rows[job])) <= 1
          /\ record.job /= 0 =>
                \/ record.read = NoOutcome
                \/ SubRecordOf(record.read.kind) \in SubRecords)
    /\ [][/\ \A job \in 1..NumRecords, value \in OutcomeValues :
                OutcomeAssigned(job, value) =>
                    /\ Populated(record'.rows[job]) =
                          {SubRecordOf(value.kind)} \cap SubRecords
                    /\ \A f \in Populated(record'.rows[job]) :
                          record'.rows[job][f] = value
          /\ \A job \in 1..NumRecords : OutcomeRead(job) =>
                LET row == record.rows[job] IN
                /\ Populated(row) = {} => record'.read = NoOutcome
                /\ \A f \in Populated(row) : record'.read = row[f]
                /\ record'.rows = record.rows]_vars

\* an extract result was assigned over a JobError and then read
C34_Witness ==
    /\ record.job = 1
    /\ record.read = [kind |-> "extract"]
    /\ Populated(record.rows[1]) = {"_extract_result"}
    /\ Populated(record.rows[2]) = {"_error"}

(* ============ crawl_url_with_source_check (SpecIntake) ================= *)

\* the call of caller puts a crawl task on the queue in this step
Dispatches(caller) ==
    /\ intake.calls[caller].pc /= intake'.calls[caller].pc
    /\ Len(intake'.queue) = Len(intake.queue) + 1

\* C35: crawl_url_with_source_check dispatches the crawl task only after a
\* Source for the normalized url exists and is committed, created by the
\* call or already present: the task is queued in the step after add_source
\* has stored the row or has found it, with the normalized url, so a queued
\* or a run task finds its Source unless that Source was deleted; for an
\* invalid url the call fails with InvalidUrl, creates no Source and
\* dispatches nothing.
C35_DispatchAfterSourceCommitted ==
    /\ [](/\ \A i \in 1..Len(intake.queue) :
                \/ Contains(registry.sources, intake.queue[i])
                \/ intake.queue[i] \in intake.deleted
          /\ intake.task.error = "SourceNotFound" =>
                intake.task.source_url \in intake.deleted
          /\ \A caller \in 1..NumCallers :
                intake.calls[caller].error = "InvalidUrl" =>
                    /\ intake.calls[caller].pc = "raised"
                    /\ registry.calls[caller] = NoCall)
    /\ [][\A caller \in 1..NumCallers :
            /\ Dispatches(caller) =>
                  /\ \/ registry.calls[caller].pc = "returned"
                     \/ registry.calls[caller].error = "SourceAlreadyExists"
                  /\ intake'.queue =
                        Append(intake.queue, NewNormalizedUrl(intake.calls[caller].url).value)
                  /\ registry'.sources = registry.sources
            /\ registry'.calls[caller].pc = "returned"
               /\ registry.calls[caller].pc /= "returned" =>
                  /\ ~Contains(registry.sources, registry.calls[caller].normalized_url)
                  /\ Contains(registry'.sources, registry.calls[caller].normalized_url)
            /\ registry'.calls[caller].error = "SourceAlreadyExists"
               /\ registry.calls[caller].error /= "SourceAlreadyExists" =>
                  Contains(registry.sources, registry.calls[caller].normalized_url)
            /\ \A url \in CheckUrls :
                  CheckBegin(caller, url) /\ NewNormalizedUrl(url).raised = "InvalidUrl" =>
                      /\ intake'.calls[caller].error = "InvalidUrl"
                      /\ intake'.queue = intake.queue
                      /\ registry' = registry]_vars

\* one call has created the Source of a url given with a trailing slash and
\* dispatched its crawl, the task has run and found the Source, and a second
\* call has dispatched a crawl of the Source it found
C35_Witness ==
    /\ registry.sources = << <<"https", ":", "/", "/", "a">> >>
    /\ intake.deleted = {}
    /\ intake.task = [source_url |-> <<"https", ":", "/", "/", "a">>, error |-> "none"]
    /\ intake.queue = << <<"https", ":", "/", "/", "a">> >>
    /\ \E caller \in 1..NumCallers :
          /\ intake.calls[caller].pc = "returned"
          /\ intake.calls[caller].url = <<"https", ":", "/", "/", "a", "/">>

(* =============== the urls one crawl visits (Spec) ====================== *)

\* C36: within one crawl no url is scraped more than once: a url that has
\* been popped from the queue is never enqueued again, so the number of
\* ScrapeJobs the crawl appends equals the number of distinct urls it
\* visited.
C36_NoUrlScrapedTwice ==
    /\ [](CrawlStarted =>
            /\ NoDuplicates(ScrapedUrls)
            /\ NoDuplicates(queued)
            /\ SeqToSet(ScrapedUrls) = crawl.processed_pages
            /\ Len(JobsOfCrawl("scrape")) = Cardinality(crawl.processed_pages)
            /\ \A i \in 1..Len(crawl.url_queue) :
                  crawl.url_queue[i] \notin crawl.processed_pages)
    /\ [][(CrawlStarted /\ Len(queued') = Len(queued) + 1 /\ queued /= <<>>) =>
             queued'[Len(queued')] \notin crawl.processed_pages]_vars

\* a crawl of two pages has returned; the extract of the second page chose the
\* seed as its next link, which was not queued again
C36_Witness ==
    /\ pc = "done"
    /\ crawl.max_pages = 3
    /\ ScrapedUrls = <<SourceUrl, 2>>
    /\ queued = <<SourceUrl, 2>>
    /\ Len(JobsOfCrawl("extract")) = 2
    /\ jobs[JobsOfCrawl("extract")[2]].outcome.kind = "extract"
    /\ jobs[JobsOfCrawl("extract")[2]].outcome.next_internal_link = SourceUrl

NextLinkOf(i) ==
    LET extracts == {e \in SeqToSet(JobsOfCrawl("extract")) :
                        PageOf(e) = ScrapedUrls[i]}
    IN IF extracts = {} THEN NoLink
       ELSE LET e == CHOOSE e \in extracts : TRUE IN
            IF jobs[e].outcome.kind = "extract" THEN jobs[e].outcome.next_internal_link
            ELSE NoLink

\* C38: in every state of crawl_source the traversal queue holds at most
\* one url, because each iteration pops one url and enqueues at most one, the
\* next link the extraction selected; a crawl therefore visits a single
\* chain of pages that starts at the seed.
C38_QueueAtMostOne ==
    /\ [](/\ Len(crawl.url_queue) <= 1
          /\ CrawlStarted =>
                /\ Len(ScrapedUrls) >= 1 => ScrapedUrls[1] = SourceUrl
                /\ \A i \in 2..Len(ScrapedUrls) : ScrapedUrls[i] = NextLinkOf(i - 1)
                /\ \A i \in 1..Len(crawl.url_queue) :
                      crawl.url_queue[i] =
                          IF ScrapedUrls = <<>> THEN SourceUrl
                          ELSE NextLinkOf(Len(ScrapedUrls)))
    /\ [][CrawlStarted => Len(queued') <= Len(queued) + 1]_vars

\* a crawl stopped by its bound: the scrapes found several links, the two
\* pages form a chain and the one url the last extract selected is queued
C38_Witness ==
    /\ pc = "done"
    /\ Len(ScrapedUrls) = 2
    /\ Len(crawl.candidate_internal_links) >= 3
    /\ Len(crawl.url_queue) = 1
    /\ crawl.url_queue[1] \notin crawl.processed_pages

(* ================= the review status (SpecOps) ========================= *)

\* job j exists and has an ExtractJobResult or a SummarizeJobResult
HasReviewStatus(j) == j \in 1..Len(jobs) /\ Reviewable(jobs[j].outcome)

\* C39: the review status of a result is monotonic: every ExtractJobResult
\* and SummarizeJobResult starts Unreviewed, only approve changes it, and
\* once it is Approved no operation (an edit of the summary, a repeated
\* approve, a later crawl or summarize of the same source) sets it back to
\* Unreviewed; approve applied twice gives the same state as applied once.
C39_ReviewStatusMonotonic ==
    [][/\ Len(jobs') >= Len(jobs)
       /\ \A j \in 1..Len(jobs') :
             Reviewable(jobs'[j].outcome) =>
                IF HasReviewStatus(j)
                THEN \/ jobs'[j].outcome.review_status = jobs[j].outcome.review_status
                     \/ /\ jobs[j].outcome.review_status = "Unreviewed"
                        /\ jobs'[j].outcome.review_status = "Approved"
                        /\ ApproveJob(j)
                ELSE jobs'[j].outcome.review_status = "Unreviewed"
       /\ \A j \in 1..Len(jobs) :
             HasReviewStatus(j) => Reviewable(jobs'[j].outcome)
       /\ \A j \in 1..Len(jobs) :
             (/\ ApproveJob(j)
              /\ HasReviewStatus(j)
              /\ jobs[j].outcome.review_status = "Approved") =>
                UNCHANGED <<pages, page_jobs, source_jobs, jobs, emitted, pc>>]_vars

\* an approved summary has been edited and the source summarized again: the
\* first result is still Approved, the new one Unreviewed
C39_Witness ==
    /\ pc = "idle"
    /\ Len(source_jobs) = 2
    /\ jobs[source_jobs[1]].outcome.kind = "summarize"
    /\ jobs[source_jobs[1]].outcome.review_status = "Approved"
    /\ jobs[source_jobs[1]].outcome.summary = <<"a">>
    /\ jobs[source_jobs[2]].outcome.kind = "summarize"
    /\ jobs[source_jobs[2]].outcome.review_status = "Unreviewed"
    /\ \E u \in URLS : \E i \in 1..Len(page_jobs[u]) :
          /\ jobs[page_jobs[u][i]].outcome.kind = "extract"
          /\ jobs[page_jobs[u][i]].outcome.review_status = "Approved"

(* ====================== chat_stream (SpecChat) ========================= *)

\* the positions in the stream of the responses with is_complete = true
CompleteResponses == {i \in 1..Len(chat.responses) : chat.responses[i].is_complete}

\* C40: every call of chat_stream makes at most 5 tool-calling rounds and
\* emits exactly one ChatResponse with is_complete = true, which is the last
\* response of the stream, whether the model answers in round 1, answers in
\* round 5, still requests tool calls after round 5, or a completion call
\* throws.
C40_OneCompleteResponse ==
    /\ chat.iteration <= max_iterations
    /\ Cardinality(CompleteResponses) <= 1
    /\ chat.pc = "done" => CompleteResponses = {Len(chat.responses)}
    /\ chat.pc \in {"loop", "final", "streaming"} => CompleteResponses = {}
=============================================================================
